---- MODULE Spec2Model ----
(***************************************************************************)
(* A model of pixelforge-mcp: the input validators (utils/validation.py),  *)
(* the configuration loader (config.py), the backend client               *)
(* (utils/api_client.py) and the tool handlers (server.py).               *)
(*                                                                         *)
(* Python strings are TLA+ strings, that is sequences of characters: Len,  *)
(* Head, Tail, SubSeq and \o apply to them, and strip, lower, endswith,    *)
(* "in", re.match and pathlib's parsing are computed from these as the     *)
(* code computes them.  Temperatures are counted in tenths.                *)
(***************************************************************************)
EXTENDS Integers, Sequences, FiniteSets, TLC

VARIABLES
    vcall,        \* the field validator being run: [cls, field, arg]
    vret,         \* what it returned or raised
    fs,           \* the file system: absolute path -> "absent" | "file" | "dir"
    configFile,   \* content of config/config.yaml
    environ,      \* os.environ, the three API-key variables
    loaded,       \* outcome of the last Config.load
    config,       \* config.py's global _config
    client,       \* server.py's global _client, with its generator
    now,          \* the clock, in milliseconds
    calls,        \* the tool calls: per call its position, arguments, response
    backendLog    \* the requests issued to the backend generator, in order

vars == <<vcall, vret, fs, configFile, environ, loaded, config, client, now, calls,
          backendLog>>
serverVars == <<config, client, now, calls, backendLog>>

(***************************************************************************)
(* Python values                                                           *)
(***************************************************************************)
\* Python's None where a string may stand; no string of the inputs equals it
None == "<None>"

\* a validator's return value / the ValueError it raised
Ok(v) == [ok |-> TRUE, value |-> v, error |-> ""]
Err(msg) == [ok |-> FALSE, value |-> None, error |-> msg]

LowerLetters == "abcdefghijklmnopqrstuvwxyz"
UpperLetters == "ABCDEFGHIJKLMNOPQRSTUVWXYZ"
DigitChars == "0123456789"

\* the i-th character of s, 1-based
Char(s, i) == SubSeq(s, i, i)
Chars(s) == {Char(s, i) : i \in 1..Len(s)}

\* str.isspace per character (the ASCII part of it)
Whitespace == {" ", "\t", "\n", "\r", "\f"}

\* s[i:], 1-based
From(s, i) == SubSeq(s, i, Len(s))

RECURSIVE LStrip(_)
LStrip(s) == IF s # "" /\ Head(s) \in Whitespace THEN LStrip(Tail(s)) ELSE s

RECURSIVE RStrip(_)
RStrip(s) ==
    IF s # "" /\ Char(s, Len(s)) \in Whitespace
    THEN RStrip(SubSeq(s, 1, Len(s) - 1))
    ELSE s

\* str.strip(): drop leading and trailing whitespace
Strip(s) == RStrip(LStrip(s))

\* str.lower(), per character
LowerChar(c) ==
    IF \E i \in 1..Len(UpperLetters) : Char(UpperLetters, i) = c
    THEN Char(LowerLetters, CHOOSE i \in 1..Len(UpperLetters) : Char(UpperLetters, i) = c)
    ELSE c

RECURSIVE Lower(_)
Lower(s) == IF s = "" THEN "" ELSE LowerChar(Head(s)) \o Lower(Tail(s))

\* s.endswith(t)
EndsWith(s, t) ==
    /\ Len(t) <= Len(s)
    /\ SubSeq(s, Len(s) - Len(t) + 1, Len(s)) = t

\* t in s, for strings
Contains(s, t) ==
    \E i \in 1..(Len(s) - Len(t) + 1) : SubSeq(s, i, i + Len(t) - 1) = t

\* s.rfind(c), 1-based, 0 when c does not occur
RFind(s, c) ==
    LET at == {i \in 1..Len(s) : Char(s, i) = c}
    IN  IF at = {} THEN 0 ELSE CHOOSE i \in at : \A j \in at : j <= i

(***************************************************************************)
(* utils/validation.py                                                     *)
(***************************************************************************)
ASPECT_RATIOS ==
    {"1:1", "2:3", "3:2", "3:4", "4:3", "4:5", "5:4", "9:16", "16:9", "21:9"}

MaxPromptLen == 2000

\* the image extensions, as validate_filename and the path validators list them
IMAGE_EXTENSIONS == {".png", ".jpg", ".jpeg", ".webp"}

GenerateImageInput_validate_prompt(v) ==
    LET s == Strip(v)
    IN  IF s = "" THEN Err("Prompt cannot be empty")
        ELSE IF Len(s) > MaxPromptLen THEN Err("Prompt too long (max 2000 characters)")
        ELSE Ok(s)

\* a faulty variant: the length test off by one
EditPromptOffByOne(v) ==
    LET s == Strip(v)
    IN  IF s = "" THEN Err("Prompt cannot be empty")
        ELSE IF Len(s) >= MaxPromptLen THEN Err("Prompt too long (max 2000 characters)")
        ELSE Ok(s)

EditImageInput_validate_prompt(v) ==
    LET s == Strip(v)
    IN  IF s = "" THEN Err("Prompt cannot be empty")
        ELSE IF Len(s) > MaxPromptLen THEN Err("Prompt too long (max 2000 characters)")
        ELSE Ok(s)

AnalyzeImageInput_validate_prompt(v) ==
    IF v = None THEN Ok(v)
    ELSE LET s == Strip(v)
         IN  IF s = "" THEN Err("Prompt cannot be empty")
             ELSE IF Len(s) > MaxPromptLen
                  THEN Err("Prompt too long (max 2000 characters)")
             ELSE Ok(s)

\* a faulty variant: the value is trimmed before the lookup
AspectRatioTrimmed(v) ==
    IF Strip(v) \notin ASPECT_RATIOS
    THEN Err("Invalid aspect ratio. Must be one of: ")
    ELSE Ok(Strip(v))

validate_aspect_ratio(v) ==
    IF v \notin ASPECT_RATIOS
    THEN Err("Invalid aspect ratio. Must be one of: ")
    ELSE Ok(v)

\* the character class [a-zA-Z0-9_\-\.]
FilenameChar(c) ==
    c \in Chars(LowerLetters) \cup Chars(UpperLetters) \cup Chars(DigitChars)
            \cup {"_", "-", "."}

\* re.match(r"^[a-zA-Z0-9_\-\.]+$", v): one or more characters of the class up
\* to "$", and "$" matches at the end of the string and also just before a
\* newline that ends the string.
FilenameReMatch(v) ==
    LET n == Len(v)
        body == IF n > 0 /\ Char(v, n) = "\n" THEN SubSeq(v, 1, n - 1) ELSE v
    IN  /\ body # ""
        /\ \A i \in 1..Len(body) : FilenameChar(Char(body, i))

\* a faulty variant: a name that an earlier request has used is refused
FilenameUnusedOnly(v) ==
    IF v = None THEN Ok(v)
    ELSE IF \E i \in 1..Len(backendLog) : backendLog[i].output_filename \in {v, v \o ".png"}
         THEN Err("Filename already used")
    ELSE IF Contains(v, "..") \/ Contains(v, "/") \/ Contains(v, "\\")
         THEN Err("Filename cannot contain path separators")
    ELSE IF ~FilenameReMatch(v)
         THEN Err("Filename can only contain letters, numbers, underscore, hyphen, and dot")
    ELSE IF ~(\E e \in IMAGE_EXTENSIONS : EndsWith(Lower(v), e))
         THEN Ok(v \o ".png")
    ELSE Ok(v)

validate_filename(v) ==
    IF v = None THEN Ok(v)
    ELSE IF Contains(v, "..") \/ Contains(v, "/") \/ Contains(v, "\\")
         THEN Err("Filename cannot contain path separators")
    ELSE IF ~FilenameReMatch(v)
         THEN Err("Filename can only contain letters, numbers, underscore, hyphen, and dot")
    ELSE IF ~(\E e \in IMAGE_EXTENSIONS : EndsWith(Lower(v), e))
         THEN Ok(v \o ".png")
    ELSE Ok(v)

\* Field(ge=0.0, le=1.0), in tenths
TempGe == 0
TempLe == 10

\* a faulty variant: gt/lt in place of ge/le
FieldGtLt(t) ==
    IF ~(t > TempGe) THEN [ok |-> FALSE, value |-> t, error |-> "greater_than"]
    ELSE IF ~(t < TempLe) THEN [ok |-> FALSE, value |-> t, error |-> "less_than"]
    ELSE [ok |-> TRUE, value |-> t, error |-> ""]

FieldGeLe(t) ==
    IF ~(t >= TempGe) THEN [ok |-> FALSE, value |-> t, error |-> "greater_than_equal"]
    ELSE IF ~(t <= TempLe) THEN [ok |-> FALSE, value |-> t, error |-> "less_than_equal"]
    ELSE [ok |-> TRUE, value |-> t, error |-> ""]

GenerateImageInput_temperature(t) == FieldGeLe(t)
EditImageInput_temperature(t) == FieldGeLe(t)

(***************************************************************************)
(* pathlib, on POSIX                                                       *)
(***************************************************************************)
RECURSIVE SplitSlash(_, _)
\* s.split("/"), cur being the component read so far
SplitSlash(s, cur) ==
    IF s = "" THEN <<cur>>
    ELSE IF Head(s) = "/" THEN <<cur>> \o SplitSlash(Tail(s), "")
    ELSE SplitSlash(Tail(s), cur \o Head(s))

IsPathPart(c) == c # "" /\ c # "."

\* Path(s): the anchor and the parts; empty and "." components are dropped,
\* ".." components are kept
PurePath(s) ==
    [abs |-> (s # "" /\ Head(s) = "/"), parts |-> SelectSeq(SplitSlash(s, ""), IsPathPart)]

\* path / s: an absolute right operand replaces the left one
Truediv(path, s) ==
    LET q == PurePath(s)
    IN  IF q.abs THEN q ELSE [abs |-> path.abs, parts |-> path.parts \o q.parts]

\* the process's working directory
Cwd == PurePath("/w")

\* Path.absolute(): prefix the working directory, nothing is normalised
Absolute(path) ==
    IF path.abs THEN path ELSE [abs |-> TRUE, parts |-> Cwd.parts \o path.parts]

\* Path.name and Path.suffix
PathName(path) == IF path.parts = <<>> THEN "" ELSE path.parts[Len(path.parts)]
Suffix(path) ==
    LET name == PathName(path)
        i == RFind(name, ".")
    IN  IF 1 < i /\ i < Len(name) THEN From(name, i) ELSE ""

RECURSIVE JoinSlash(_)
JoinSlash(parts) ==
    IF parts = <<>> THEN ""
    ELSE IF Len(parts) = 1 THEN parts[1]
    ELSE parts[1] \o "/" \o JoinSlash(Tail(parts))

\* str(path)
Str(path) ==
    IF path.abs THEN "/" \o JoinSlash(path.parts)
    ELSE IF path.parts = <<>> THEN "."
    ELSE JoinSlash(path.parts)

\* what a file system holds at a path: the root and the working directory are
\* directories, the other entries are those of files
KindIn(files, path) ==
    LET a == Absolute(path)
    IN  IF a.parts = <<>> \/ a = Cwd THEN "dir"
        ELSE IF Str(a) \in DOMAIN files THEN files[Str(a)]
        ELSE "absent"
Kind(path) == KindIn(fs, path)

\* Path.exists(), Path.is_file()
Exists(path) == Kind(path) # "absent"
IsFile(path) == Kind(path) = "file"

EditImageInput_validate_input_path(v) ==
    LET path == PurePath(v)
    IN  IF ~Exists(path) THEN Err("Input image not found: ")
        ELSE IF ~IsFile(path) THEN Err("Input path is not a file: ")
        ELSE IF Lower(Suffix(path)) \notin IMAGE_EXTENSIONS
             THEN Err("Invalid image format: ")
        ELSE Ok(Str(Absolute(path)))

\* a faulty variant: the format is tested before the path is looked up
AnalyzePathFormatFirst(v) ==
    LET path == PurePath(v)
    IN  IF Lower(Suffix(path)) \notin IMAGE_EXTENSIONS
        THEN Err("Invalid image format: ")
        ELSE IF ~Exists(path) THEN Err("Image not found: ")
        ELSE IF ~IsFile(path) THEN Err("Path is not a file: ")
        ELSE Ok(Str(Absolute(path)))

AnalyzeImageInput_validate_image_path(v) ==
    LET path == PurePath(v)
    IN  IF ~Exists(path) THEN Err("Image not found: ")
        ELSE IF ~IsFile(path) THEN Err("Path is not a file: ")
        ELSE IF Lower(Suffix(path)) \notin IMAGE_EXTENSIONS
             THEN Err("Invalid image format: ")
        ELSE Ok(Str(Absolute(path)))

(***************************************************************************)
(* config.py                                                               *)
(***************************************************************************)
\* a YAML node: null, a mapping (a function from its keys) or a list
YNull == [tag |-> "null", items |-> <<>>]
YList == [tag |-> "list", items |-> <<"item">>]
YMap(items) == [tag |-> "map", items |-> items]

\* config/config.yaml: absent, or a document
MissingFile == [exists |-> FALSE, doc |-> YNull]
File(doc) == [exists |-> TRUE, doc |-> doc]

ENV_NAMES == <<"GOOGLE_API_KEY", "GOOGLE_GENERATIVE_AI_API_KEY", "GEMINI_API_KEY">>
EnvNothing == [n \in {ENV_NAMES[i] : i \in 1..3} |-> None]

\* the compiled-in defaults of ImagenConfig, StorageConfig and ServerConfig
ImagenDefaults ==
    [api_key |-> None, default_model |-> "gemini-2.5-flash-image",
     default_aspect_ratio |-> "1:1", default_temperature |-> 7,
     safety_setting |-> "preset:strict"]
StorageDefaults ==
    [output_dir |-> "./generated_images", use_s3 |-> FALSE, s3_bucket |-> None,
     s3_prefix |-> ""]
ServerDefaults ==
    [name |-> "gemini-imagen-mcp", version |-> "0.1.4", log_level |-> "INFO"]

\* a section model built from a mapping: a field the mapping omits takes its default
FromMapping(defaults, items) ==
    [f \in DOMAIN defaults |-> IF f \in DOMAIN items THEN items[f] ELSE defaults[f]]

\* ImagenConfig.validate_temperature, in tenths
validate_temperature(v) ==
    IF ~(0 <= v /\ v <= 10)
    THEN [ok |-> FALSE, value |-> v, error |-> "Temperature must be between 0 and 1"]
    ELSE [ok |-> TRUE, value |-> v, error |-> ""]

\* StorageConfig.create_output_dir: v.mkdir(parents=True, exist_ok=True) raises
\* FileExistsError when the path is a file; files is the file system
MkdirRaises(files, v) ==
    LET a == Str(Absolute(PurePath(v)))
    IN  a \in DOMAIN files /\ files[a] = "file"
MkdirEffect(files, v) ==
    LET a == Str(Absolute(PurePath(v)))
    IN  IF a \in DOMAIN files /\ files[a] = "file" THEN files
        ELSE [q \in DOMAIN files \cup {a} |-> IF q = a THEN "dir" ELSE files[q]]

\* a faulty variant: the first variable that is set wins, even when it is empty
EnvApiKeyFirstSet(env) ==
    LET get(i) == env[ENV_NAMES[i]]
    IN  IF get(1) # None THEN get(1)
        ELSE IF get(2) # None THEN get(2)
        ELSE get(3)

\* os.getenv(a) or os.getenv(b) or os.getenv(c): the first truthy value, else the last
EnvApiKey(env) ==
    LET get(i) == env[ENV_NAMES[i]]
        truthy(x) == x # None /\ x # ""
    IN  IF truthy(get(1)) THEN get(1)
        ELSE IF truthy(get(2)) THEN get(2)
        ELSE get(3)

\* a faulty variant: the document is taken as it is, without "or {}"
LoadedDataAsIs(file) == IF ~file.exists THEN YMap(<<>>) ELSE file.doc

\* yaml.safe_load(f) or {} when the file exists, {} otherwise
LoadedData(file) ==
    IF ~file.exists THEN YMap(<<>>)
    ELSE IF file.doc.tag = "null" \/ file.doc.items = <<>> THEN YMap(<<>>)
    ELSE file.doc

\* config_data.setdefault("imagen", {})["api_key"] = api_key
WithApiKey(data, key) ==
    LET old == IF "imagen" \in DOMAIN data.items THEN data.items["imagen"] ELSE YMap(<<>>)
        new == YMap([f \in DOMAIN old.items \cup {"api_key"} |->
                        IF f = "api_key" THEN key ELSE old.items[f]])
    IN  YMap([k \in DOMAIN data.items \cup {"imagen"} |->
                 IF k = "imagen" THEN new ELSE data.items[k]])

Raised(exc) == [raised |-> TRUE, exc |-> exc, config |-> [is_none |-> TRUE]]
Built(cfg) == [raised |-> FALSE, exc |-> "", config |-> cfg]

\* cls(**config_data): each section present must be a mapping; its fields are
\* validated, the sections absent are built by their default factories
BuildConfig(data, files) ==
    LET has(k) == k \in DOMAIN data.items
        sec(k) == data.items[k]
        bad(k) == has(k) /\ sec(k).tag # "map"
        imagen == IF has("imagen") /\ ~bad("imagen")
                  THEN FromMapping(ImagenDefaults, sec("imagen").items)
                  ELSE ImagenDefaults
        storage == IF has("storage") /\ ~bad("storage")
                   THEN FromMapping(StorageDefaults, sec("storage").items)
                   ELSE StorageDefaults
        server == IF has("server") /\ ~bad("server")
                  THEN FromMapping(ServerDefaults, sec("server").items)
                  ELSE ServerDefaults
        tempGiven == has("imagen") /\ ~bad("imagen")
                        /\ "default_temperature" \in DOMAIN sec("imagen").items
        dirGiven == has("storage") /\ ~bad("storage")
                        /\ "output_dir" \in DOMAIN sec("storage").items
    IN  IF dirGiven /\ MkdirRaises(files, storage.output_dir)
        THEN Raised("FileExistsError")
        ELSE IF \/ bad("imagen") \/ bad("storage") \/ bad("server")
                \/ (tempGiven /\ ~validate_temperature(imagen.default_temperature).ok)
             THEN Raised("ValidationError")
        ELSE Built([imagen |-> imagen, storage |-> storage, server |-> server])

\* the file system after cls(**config_data)
BuildConfigFiles(data, files) ==
    IF /\ "storage" \in DOMAIN data.items
       /\ data.items["storage"].tag = "map"
       /\ "output_dir" \in DOMAIN data.items["storage"].items
    THEN MkdirEffect(files, data.items["storage"].items["output_dir"])
    ELSE files

\* Config.load(): what it returns or raises.  Data that is no mapping has no
\* setdefault and is no keyword mapping; a null section cannot be assigned into.
ConfigLoad(file, env, files) ==
    LET api_key == EnvApiKey(env)
        truthy == api_key # None /\ api_key # ""
        data == LoadedData(file)
    IN  IF data.tag # "map"
        THEN Raised(IF truthy THEN "AttributeError" ELSE "TypeError")
        ELSE IF truthy /\ "imagen" \in DOMAIN data.items /\ data.items["imagen"].tag # "map"
             THEN Raised("TypeError")
        ELSE BuildConfig(IF truthy THEN WithApiKey(data, api_key) ELSE data, files)

\* Config.load(): the file system it leaves
ConfigLoadFiles(file, env, files) ==
    IF ConfigLoad(file, env, files).exc \in {"TypeError", "AttributeError"} THEN files
    ELSE BuildConfigFiles(LoadedData(file), files)

(***************************************************************************)
(* The state before anything has run                                       *)
(***************************************************************************)
NoCall == [cls |-> "", field |-> "", arg |-> None]

\* the files the model keeps track of, all absent
DiskPaths == {"/w/i.png", "/w/I.JPeG", "/w/n.txt", "/w/x", "/w/.png"}
FsNothing == [p \in DiskPaths |-> "absent"]

\* no Config.load has run
NotLoaded == Built([is_none |-> TRUE])

\* _config = None, _client = None
NoConfig == [is_none |-> TRUE]
NoGenerator == [created |-> FALSE, model_name |-> None]
NoClient == [created |-> FALSE, model_name |-> None, api_key |-> None, generator |-> NoGenerator]

CallIds == {"c1"}

NoData == [present |-> FALSE, model |-> None, analysis |-> None, models |-> <<>>]

\* an Optional[List[str]]: None, or a list
NoList == [is_none |-> TRUE, items |-> <<>>]
List(items) == [is_none |-> FALSE, items |-> items]

\* no adapter operation has returned to the call
NoResult ==
    [returned |-> FALSE, success |-> FALSE, output |-> "", error |-> None,
     image_paths |-> NoList, data |-> NoData]

NoResponse ==
    [returned |-> FALSE, success |-> FALSE, message |-> None, image_path |-> None,
     image_size_bytes |-> None, analysis |-> None, details |-> NoData,
     models |-> NoList]

\* the arguments of a tool call (a tool reads those it declares) and the
\* validated model built from them
NoArgs ==
    [prompt |-> None, output_filename |-> None, aspect_ratio |-> None,
     temperature |-> 0, model |-> None, image_path |-> None, output_path |-> None]
NoInputs ==
    [ok |-> FALSE, prompt |-> None, output_filename |-> None, aspect_ratio |-> None,
     temperature |-> 0, model |-> None, image_path |-> None, errors |-> ""]

\* a call that has not been made; exc is the class of the exception the
\* handler's except clauses caught, backend is what generator.generate(...)
\* did when the call awaited it
IdleCall ==
    [pc |-> "idle", tool |-> "", args |-> NoArgs, rejected |-> FALSE, inputs |-> NoInputs,
     exc |-> "", output_path |-> None, backend |-> "", result |-> NoResult,
     response |-> NoResponse]

\* the server module as imported: nothing loaded, nothing called
ServerIdle ==
    /\ config = NoConfig
    /\ client = NoClient
    /\ now = 0
    /\ calls = [c \in CallIds |-> IdleCall]
    /\ backendLog = <<>>

(***************************************************************************)
(* The pydantic models: every field is validated, the errors are collected *)
(***************************************************************************)
FieldError(field, r) == IF r.ok THEN "" ELSE field \o ": " \o r.error \o "\n"

\* str(ValidationError); nothing is raised when no field has an error
ValidationErrorText(cls, errors) ==
    IF errors = "" THEN "" ELSE "validation error for " \o cls \o "\n" \o errors

GenerateImageInput(args) ==
    LET p == GenerateImageInput_validate_prompt(args.prompt)
        f == validate_filename(args.output_filename)
        a == validate_aspect_ratio(args.aspect_ratio)
        t == GenerateImageInput_temperature(args.temperature)
    IN  [ok |-> p.ok /\ f.ok /\ a.ok /\ t.ok,
         prompt |-> p.value, output_filename |-> f.value, aspect_ratio |-> a.value,
         temperature |-> t.value, model |-> args.model, image_path |-> None,
         errors |-> ValidationErrorText("GenerateImageInput",
                       FieldError("prompt", p) \o FieldError("output_filename", f)
                         \o FieldError("aspect_ratio", a) \o FieldError("temperature", t))]

\* output_filename has no validator in EditImageInput
EditImageInput(args) ==
    LET p == EditImageInput_validate_prompt(args.prompt)
        i == EditImageInput_validate_input_path(args.image_path)
        t == EditImageInput_temperature(args.temperature)
    IN  [ok |-> p.ok /\ i.ok /\ t.ok,
         prompt |-> p.value, output_filename |-> args.output_filename,
         aspect_ratio |-> None, temperature |-> t.value, model |-> None,
         image_path |-> i.value,
         errors |-> ValidationErrorText("EditImageInput",
                       FieldError("prompt", p) \o FieldError("input_image_path", i)
                         \o FieldError("temperature", t))]

\* the handler passes image_path alone, prompt keeps its default None
AnalyzeImageInput(args) ==
    LET i == AnalyzeImageInput_validate_image_path(args.image_path)
        p == AnalyzeImageInput_validate_prompt(None)
    IN  [ok |-> i.ok /\ p.ok,
         prompt |-> p.value, output_filename |-> None, aspect_ratio |-> None,
         temperature |-> NoArgs.temperature, model |-> None, image_path |-> i.value,
         errors |-> ValidationErrorText("AnalyzeImageInput",
                       FieldError("image_path", i) \o FieldError("prompt", p))]

(***************************************************************************)
(* utils/api_client.py and server.py                                       *)
(***************************************************************************)
DEFAULT_ANALYSIS_PROMPT ==
    "Describe this image in detail, including objects, colors, composition, and mood."

Truthy(x) == x # None /\ x # ""

\* str(e) of an exception raised by Config.load
ExcText(exc) == exc \o " raised by Config.load"

\* a Config object on the heap: its fields, and the serial number that tells
\* it from every other Config built in this process
Instance(cfg, id) ==
    [id |-> id, imagen |-> cfg.imagen, storage |-> cfg.storage, server |-> cfg.server]

\* the serial number of the object _config refers to, 0 for None
Serial(cfg) == IF cfg = NoConfig THEN 0 ELSE cfg.id

\* a faulty variant: _config is cleared before Config.load() is called
ClearedBeforeLoad(cfg, r, files) ==
    [raised |-> r.raised, exc |-> r.exc,
     value |-> IF r.raised THEN NoConfig ELSE Instance(r.config, Serial(cfg) + 1),
     global |-> IF r.raised THEN NoConfig ELSE Instance(r.config, Serial(cfg) + 1),
     files |-> files]

\* _config = r, r being what Config.load() returned or raised: the object a
\* successful load leaves in _config is a new one, and it is the value given
Assigned(cfg, r, files) ==
    [raised |-> r.raised, exc |-> r.exc,
     value |-> IF r.raised THEN cfg ELSE Instance(r.config, Serial(cfg) + 1),
     global |-> IF r.raised THEN cfg ELSE Instance(r.config, Serial(cfg) + 1),
     files |-> files]

\* _config = Config.load()
LoadInto(cfg, files) ==
    Assigned(cfg, ConfigLoad(configFile, environ, files),
             ConfigLoadFiles(configFile, environ, files))

\* a faulty variant: every call loads, nothing is kept
GetConfigAlwaysLoads(cfg, files) == LoadInto(cfg, files)

\* get_config(): the value returned (or the exception), the global _config
\* and the file system afterwards
GetConfig(cfg, files) ==
    IF cfg # NoConfig
    THEN [raised |-> FALSE, exc |-> "", value |-> cfg, global |-> cfg, files |-> files]
    ELSE LoadInto(cfg, files)

\* a faulty variant: the client is built anew from the configuration on
\* every call
GetApiClientAnew(cl, cfg) ==
    [created |-> TRUE, model_name |-> cfg.imagen.default_model,
     api_key |-> cfg.imagen.api_key, generator |-> NoGenerator]

\* get_api_client(), cfg being what get_config() returns
GetApiClient(cl, cfg) ==
    IF cl.created THEN cl
    ELSE [created |-> TRUE, model_name |-> cfg.imagen.default_model,
          api_key |-> cfg.imagen.api_key, generator |-> NoGenerator]

\* ImagenAPIClient._get_generator(), when the constructor returns
GetGenerator(cl) ==
    IF cl.generator.created THEN cl
    ELSE [cl EXCEPT !.generator = [created |-> TRUE, model_name |-> cl.model_name]]

\* a faulty variant: the model of the call is not written into the generator
ModelLeftAlone(cl, model) == cl

\* if model: generator.model_name = model, the generator being the one the
\* client keeps
SetModel(cl, model) ==
    IF Truthy(model) THEN [cl EXCEPT !.generator.model_name = model] ELSE cl

\* strftime("%Y%m%d_%H%M%S_%f")[:-3]: the clock to the millisecond
Timestamp(t) == ToString(t)

\* generate_output_path(filename, prefix), cfg being what get_config() returns
generate_output_path(cfg, filename, prefix, t) ==
    LET output_dir == PurePath(cfg.storage.output_dir)
    IN  IF Truthy(filename) THEN Truediv(output_dir, filename)
        ELSE Truediv(output_dir, prefix \o "_" \o Timestamp(t) \o ".png")

\* GenerationResult(success=True, output=..., image_paths=..., data=...),
\* error keeping its default None
Success(output, image_paths, data) ==
    [returned |-> TRUE, success |-> TRUE, output |-> output, error |-> None,
     image_paths |-> image_paths, data |-> data]

\* a faulty variant: the error text is lost, the output tells of a failure
FailureInOutput(error) ==
    [returned |-> TRUE, success |-> FALSE, output |-> error, error |-> None,
     image_paths |-> NoList, data |-> NoData]

\* GenerationResult(success=False, output="", error=...), image_paths and
\* data keeping their default None
Failure(error) ==
    [returned |-> TRUE, success |-> FALSE, output |-> "", error |-> error,
     image_paths |-> NoList, data |-> NoData]

\* what the backend generator does with a request
GenerateOutcomes ==
    {"image", "two images", "image not written", "no images", "raises", "raises bare"}
AnalyzeOutcomes == {"text", "no text", "raises", "raises bare"}
BackendErrorText == "backend error"

\* an exception is raised with a message, or without one: str(e)
RaisedText(outcome) == IF outcome = "raises" THEN BackendErrorText ELSE ""
AnalysisText == "a description"

Response(success, message) ==
    [returned |-> TRUE, success |-> success, message |-> message, image_path |-> None,
     image_size_bytes |-> None, analysis |-> None, details |-> NoData,
     models |-> NoList]

\* a faulty variant: the path is reported without looking for the file
FormatApiResultUnchecked(result, image_path, files) ==
    LET onDisk == result.success /\ image_path # None
    IN  [returned |-> TRUE,
         success |-> result.success,
         message |-> IF result.success THEN result.output ELSE result.error,
         image_path |-> IF onDisk THEN Str(Absolute(PurePath(image_path))) ELSE None,
         image_size_bytes |-> IF onDisk THEN "st_size" ELSE None,
         analysis |-> None,
         details |-> result.data,
         models |-> NoList]

\* format_api_result(result, image_path) on the file system files;
\* image_path is a path, or None
format_api_result(result, image_path, files) ==
    LET onDisk == /\ result.success
                  /\ image_path # None
                  /\ KindIn(files, PurePath(image_path)) # "absent"
    IN  [returned |-> TRUE,
         success |-> result.success,
         message |-> IF result.success THEN result.output ELSE result.error,
         image_path |-> IF onDisk THEN Str(Absolute(PurePath(image_path))) ELSE None,
         image_size_bytes |-> IF onDisk THEN "st_size" ELSE None,
         analysis |-> None,
         details |-> result.data,
         models |-> NoList]

\* the handlers' except clauses
InvalidInputAsUnexpected(text) == Response(FALSE, "Error generating image: " \o text)
InvalidInputResponse(text) == Response(FALSE, "Invalid input: " \o text)
UnexpectedErrorResponse(verb, text) == Response(FALSE, "Error " \o verb \o " image: " \o text)

\* except ValidationError / except Exception, for an exception out of get_config
ConfigErrorResponse(verb, exc) ==
    IF exc = "ValidationError" THEN InvalidInputResponse(ExcText(exc))
    ELSE UnexpectedErrorResponse(verb, ExcText(exc))

\* the file system after the backend has written an image
WriteFile(files, p) ==
    LET a == Str(Absolute(PurePath(p)))
    IN  [q \in DOMAIN files \cup {a} |-> IF q = a THEN "file" ELSE files[q]]

(***************************************************************************)
(* The field validators, each run on its own                               *)
(***************************************************************************)
RECURSIVE StringsOver(_, _)
\* the strings of at most n characters over the alphabet A
StringsOver(A, n) ==
    IF n = 0 THEN {""}
    ELSE LET S == StringsOver(A, n - 1) IN S \cup {s \o c : s \in S, c \in A}

RECURSIVE Rep(_, _)
\* c * n
Rep(c, n) ==
    IF n = 0 THEN ""
    ELSE LET h == Rep(c, n \div 2) IN h \o h \o (IF n % 2 = 1 THEN c ELSE "")

MaxShortPrompt == 3
MaxStemLen == 3
TempSpan == 3

PromptArgs ==
    StringsOver({" ", "\n", "a"}, MaxShortPrompt)
      \cup {l \o Rep("a", n) \o r :
              l \in {"", " "}, r \in {"", "\n"}, n \in (MaxPromptLen - 1)..(MaxPromptLen + 1)}

FilenameArgs ==
    {s \o t : s \in StringsOver({"a", "Z", ".", "/", "\\", "\n", "@"}, MaxStemLen),
              t \in {"", ".png", ".PNG", ".jpg", ".jpeg", ".webp", ".gif", ".png\n", "_7-b"}}

AspectRatioArgs ==
    ASPECT_RATIOS \cup {"5:5", "", "16:9 ", " 1:1", "1:1\n", "16x9", "9:21", "1:01", "1:1,2:3"}

TemperatureArgs == (TempGe - TempSpan)..(TempLe + TempSpan)

FieldsInit ==
    /\ vcall = NoCall
    /\ vret = Ok(None)
    /\ fs = FsNothing
    /\ configFile = MissingFile
    /\ environ = EnvNothing
    /\ loaded = NotLoaded
    /\ ServerIdle

\* the validator returns or raises; each run starts from the state before any
Returned(cls, field, arg, ret) ==
    /\ vcall' = [cls |-> cls, field |-> field, arg |-> arg]
    /\ vret' = ret
    /\ UNCHANGED <<fs, configFile, environ, loaded, serverVars>>

GenerateValidatePrompt ==
    /\ vcall = NoCall
    /\ \E v \in PromptArgs :
         Returned("GenerateImageInput", "prompt", v, GenerateImageInput_validate_prompt(v))

EditValidatePrompt ==
    /\ vcall = NoCall
    /\ \E v \in PromptArgs :
         Returned("EditImageInput", "prompt", v, EditImageInput_validate_prompt(v))

AnalyzeValidatePrompt ==
    /\ vcall = NoCall
    /\ \E v \in PromptArgs \cup {None} :
         Returned("AnalyzeImageInput", "prompt", v, AnalyzeImageInput_validate_prompt(v))

ValidateAspectRatio ==
    /\ vcall = NoCall
    /\ \E v \in AspectRatioArgs :
         Returned("GenerateImageInput", "aspect_ratio", v, validate_aspect_ratio(v))

ValidateFilename ==
    /\ vcall = NoCall
    /\ \E v \in FilenameArgs \cup {None} :
         Returned("GenerateImageInput", "output_filename", v, validate_filename(v))

GenerateValidateTemperature ==
    /\ vcall = NoCall
    /\ \E t \in TemperatureArgs :
         Returned("GenerateImageInput", "temperature", t, GenerateImageInput_temperature(t))

EditValidateTemperature ==
    /\ vcall = NoCall
    /\ \E t \in TemperatureArgs :
         Returned("EditImageInput", "temperature", t, EditImageInput_temperature(t))

FieldsNext ==
    \/ GenerateValidatePrompt
    \/ EditValidatePrompt
    \/ AnalyzeValidatePrompt
    \/ ValidateAspectRatio
    \/ ValidateFilename
    \/ GenerateValidateTemperature
    \/ EditValidateTemperature

SpecFields == FieldsInit /\ [][FieldsNext]_vars

(***************************************************************************)
(* The image-path validators, run against a file system                    *)
(***************************************************************************)
PathArgs ==
    DiskPaths \cup {"i.png", "I.JPeG", "n.txt", "x", ".png", "./i.png", "", "/w", "ghost.png",
                    "ghost.txt"}

PathsInit ==
    /\ vcall = NoCall
    /\ vret = Ok(None)
    /\ fs \in [DiskPaths -> {"absent", "file", "dir"}]
    /\ configFile = MissingFile
    /\ environ = EnvNothing
    /\ loaded = NotLoaded
    /\ ServerIdle

EditValidateInputPath ==
    /\ vcall = NoCall
    /\ \E v \in PathArgs :
         Returned("EditImageInput", "input_image_path", v,
                  EditImageInput_validate_input_path(v))

AnalyzeValidateImagePath ==
    /\ vcall = NoCall
    /\ \E v \in PathArgs :
         Returned("AnalyzeImageInput", "image_path", v,
                  AnalyzeImageInput_validate_image_path(v))

PathsNext ==
    \/ EditValidateInputPath
    \/ AnalyzeValidateImagePath

SpecPaths == PathsInit /\ [][PathsNext]_vars

(***************************************************************************)
(* Properties of the field validators                                      *)
(***************************************************************************)
FilenameRun == vcall.field = "output_filename" /\ vcall.arg # None
PromptRun == vcall.field = "prompt" /\ vcall.arg # None
PathRun == vcall.field \in {"input_image_path", "image_path"}

HasImageExtension(f) == \E e \in {".png", ".jpg", ".jpeg", ".webp"} : EndsWith(Lower(f), e)

\* C2: validate_filename rejects every name that contains "/", a backslash or
\* "..", and every name with a character outside [A-Za-z0-9_.-]; so an accepted
\* name consists of such characters only.
C2_FilenameCharset ==
    FilenameRun =>
        /\ (Contains(vcall.arg, "/") \/ Contains(vcall.arg, "\\") \/ Contains(vcall.arg, ".."))
              => ~vret.ok
        /\ (\E c \in Chars(vcall.arg) : ~FilenameChar(c)) => ~vret.ok

\* C4: an accepted name that ends, case-insensitively, with an image extension
\* is stored unchanged and any other accepted name is stored with ".png"
\* appended; the stored name ends with an image extension and validating it
\* again returns it unchanged.
C4_FilenameExtension ==
    (FilenameRun /\ vret.ok) =>
        /\ vret.value = IF HasImageExtension(vcall.arg) THEN vcall.arg
                        ELSE vcall.arg \o ".png"
        /\ HasImageExtension(vret.value)
        /\ validate_filename(vret.value) = Ok(vret.value)

\* C5: each of the three prompt validators accepts a prompt p iff
\* 1 <= len(trim(p)) <= 2000, stores trim(p), and otherwise raises "Prompt
\* cannot be empty" or "Prompt too long"; the outcome depends on p alone, not
\* on the validator.
C5_PromptRule ==
    PromptRun =>
        LET t == Strip(vcall.arg)
        IN  /\ vret.ok <=> (1 <= Len(t) /\ Len(t) <= 2000)
            /\ vret.ok => /\ vret.value = t
                          /\ Contains(vcall.arg, vret.value)
                          /\ Head(vret.value) \notin Whitespace
                          /\ Char(vret.value, Len(vret.value)) \notin Whitespace
            /\ (~vret.ok /\ t = "") => vret.error = "Prompt cannot be empty"
            /\ (~vret.ok /\ t # "") => SubSeq(vret.error, 1, 15) = "Prompt too long"

C5_Witness ==
    /\ PromptRun
    /\ vcall.cls = "EditImageInput"
    /\ vret.ok
    /\ Len(vret.value) = 2000
    /\ vret.value # vcall.arg

\* C6: validate_aspect_ratio accepts exactly the ten listed strings and stores
\* an accepted one unchanged.
C6_AspectRatioRule ==
    vcall.field = "aspect_ratio" =>
        /\ vret.ok <=> vcall.arg \in {"1:1", "2:3", "3:2", "3:4", "4:3", "4:5", "5:4",
                                      "9:16", "16:9", "21:9"}
        /\ vret.ok => vret.value = vcall.arg

C6_Witness == vcall.field = "aspect_ratio" /\ vcall.arg = "21:9" /\ vret.ok

\* C7: the temperature field of GenerateImageInput and of EditImageInput
\* accepts t iff 0.0 <= t <= 1.0, both bounds included (t in tenths).
C7_TemperatureRule ==
    vcall.field = "temperature" =>
        /\ vret.ok <=> (0 <= vcall.arg /\ vcall.arg <= 10)
        /\ vret.ok => vret.value = vcall.arg

C7_Witness ==
    /\ vcall.field = "temperature"
    /\ vcall.cls = "EditImageInput"
    /\ vcall.arg = 10
    /\ vret.ok

\* C8: both image-path validators decide in this order: a path that does not
\* exist raises "not found", an existing path that is no regular file raises
\* "not a file", a file without an image suffix raises "Invalid image format",
\* and any other path is stored as its absolute path.
C8_ImagePathRule ==
    PathRun =>
        LET path == PurePath(vcall.arg)
            kind == Kind(path)
            isImage == Lower(Suffix(path)) \in {".png", ".jpg", ".jpeg", ".webp"}
        IN  /\ kind = "absent" =>
                 ~vret.ok /\ vret.error \in {"Input image not found: ", "Image not found: "}
            /\ kind = "dir" =>
                 ~vret.ok /\ vret.error \in {"Input path is not a file: ", "Path is not a file: "}
            /\ (kind = "file" /\ ~isImage) =>
                 ~vret.ok /\ vret.error = "Invalid image format: "
            /\ (kind = "file" /\ isImage) =>
                 /\ vret.ok
                 /\ Head(vret.value) = "/"
                 /\ vret.value \in DOMAIN fs
                 /\ fs[vret.value] = "file"
                 /\ vret.value \in {vcall.arg, "/w/" \o vcall.arg, "/w/" \o From(vcall.arg, 3)}

C8_Witness ==
    /\ PathRun
    /\ vcall.cls = "AnalyzeImageInput"
    /\ vcall.arg = "I.JPeG"
    /\ vret.ok
    /\ vret.value = "/w/I.JPeG"

(***************************************************************************)
(* Config.load, run on a configuration file and an environment             *)
(***************************************************************************)
ImagenFields == DOMAIN ImagenDefaults
StorageFields == DOMAIN StorageDefaults
ServerFields == DOMAIN ServerDefaults

\* the values a file gives: valid ones, none equal to the default
ImagenGiven ==
    [api_key |-> "file-key", default_model |-> "custom-model",
     default_aspect_ratio |-> "16:9", default_temperature |-> 9,
     safety_setting |-> "preset:relaxed"]
StorageGiven ==
    [output_dir |-> "out", use_s3 |-> TRUE, s3_bucket |-> "test-bucket", s3_prefix |-> "img/"]
ServerGiven ==
    [name |-> "custom-name", version |-> "9.9.9", log_level |-> "DEBUG"]

Mapping(given, S) == YMap([f \in S |-> given[f]])

\* a section that gives any subset of its fields, with valid values
ValidImagenSections ==
    {Mapping(ImagenGiven, S) : S \in SUBSET ImagenFields}
      \cup {YMap([api_key |-> ""]), YMap([api_key |-> None])}
ValidStorageSections ==
    {Mapping(StorageGiven, S) :
        S \in {{}, StorageFields} \cup {{f} : f \in StorageFields}
                \cup {StorageFields \ {f} : f \in StorageFields}}
ValidServerSections == {Mapping(ServerGiven, S) : S \in SUBSET ServerFields}

ImagenSections == ValidImagenSections \cup {YMap([default_temperature |-> 11]), YNull}
StorageSections == ValidStorageSections \cup {YNull}
ServerSections == ValidServerSections \cup {YNull}

\* a top-level key the document omits
Omitted == [tag |-> "omitted", items |-> <<>>]

\* the document with these sections, the omitted ones left out
Document(imagen, storage, server) ==
    LET sec == [imagen |-> imagen, storage |-> storage, server |-> server]
    IN  YMap([k \in {x \in DOMAIN sec : sec[x] # Omitted} |-> sec[k]])

Documents ==
    {Document(i, s, v) : i \in ImagenSections \cup {Omitted},
                         s \in StorageSections \cup {Omitted},
                         v \in ServerSections \cup {Omitted}}

ConfigFiles == {MissingFile, File(YNull), File(YList)} \cup {File(d) : d \in Documents}

Environs ==
    {[GOOGLE_API_KEY |-> a, GOOGLE_GENERATIVE_AI_API_KEY |-> b, GEMINI_API_KEY |-> c] :
        a \in {None, "", "google-key"}, b \in {None, "", "genai-key"},
        c \in {None, "", "gemini-key"}}

ConfigInit ==
    /\ vcall = NoCall
    /\ vret = Ok(None)
    /\ fs \in [{"/w/out"} -> {"absent", "file", "dir"}]
    /\ configFile = MissingFile
    /\ environ = EnvNothing
    /\ loaded = NotLoaded
    /\ ServerIdle

\* Config.load() on a configuration file and an environment
LoadConfig ==
    /\ loaded = NotLoaded
    /\ \E file \in ConfigFiles, env \in Environs :
         /\ configFile' = file
         /\ environ' = env
         /\ loaded' = ConfigLoad(file, env, fs)
         /\ fs' = ConfigLoadFiles(file, env, fs)
    /\ UNCHANGED <<vcall, vret, serverVars>>

ConfigNext == LoadConfig

SpecConfig == ConfigInit /\ [][ConfigNext]_vars

(***************************************************************************)
(* Properties of Config.load                                               *)
(***************************************************************************)
LoadRan == loaded # NotLoaded
NonEmpty(x) == x # None /\ x # ""

\* the section the file gives under a key, Omitted when it gives none
FileSection(k) ==
    IF configFile.exists /\ configFile.doc.tag = "map" /\ k \in DOMAIN configFile.doc.items
    THEN configFile.doc.items[k]
    ELSE Omitted
FileGives(k, f) == FileSection(k).tag = "map" /\ f \in DOMAIN FileSection(k).items
FileApiKey ==
    IF FileGives("imagen", "api_key") THEN FileSection("imagen").items["api_key"] ELSE None

\* C9: the api_key of the configuration Config.load returns is the first
\* non-empty value among GOOGLE_API_KEY, GOOGLE_GENERATIVE_AI_API_KEY and
\* GEMINI_API_KEY, whatever api_key the file gives; when none of them is
\* non-empty it is the file's api_key, and None when the file gives none.
C9_ApiKeyPrecedence ==
    (LoadRan /\ ~loaded.raised) =>
        LET key == loaded.config.imagen.api_key
            e1 == environ["GOOGLE_API_KEY"]
            e2 == environ["GOOGLE_GENERATIVE_AI_API_KEY"]
            e3 == environ["GEMINI_API_KEY"]
        IN  /\ NonEmpty(e1) => key = e1
            /\ (~NonEmpty(e1) /\ NonEmpty(e2)) => key = e2
            /\ (~NonEmpty(e1) /\ ~NonEmpty(e2) /\ NonEmpty(e3)) => key = e3
            /\ (~NonEmpty(e1) /\ ~NonEmpty(e2) /\ ~NonEmpty(e3)) => key = FileApiKey

C9_Witness ==
    /\ LoadRan
    /\ ~loaded.raised
    /\ environ["GOOGLE_API_KEY"] = ""
    /\ environ["GOOGLE_GENERATIVE_AI_API_KEY"] = "genai-key"
    /\ environ["GEMINI_API_KEY"] = "gemini-key"
    /\ FileApiKey = "file-key"
    /\ loaded.config.imagen.api_key = "genai-key"

\* the file is missing or empty, or is a mapping in which every section given
\* is a mapping of valid values (any keys and fields may be omitted), and the
\* output directory it names, if any, is not an existing file
FileOmitsOnly ==
    \/ ~configFile.exists
    \/ configFile.doc = YNull
    \/ /\ configFile.doc.tag = "map"
       /\ FileSection("imagen") \in ValidImagenSections \cup {Omitted}
       /\ FileSection("storage") \in ValidStorageSections \cup {Omitted}
       /\ FileSection("server") \in ValidServerSections \cup {Omitted}
       /\ FileGives("storage", "output_dir") => fs["/w/out"] # "file"

Defaults == [imagen |-> ImagenDefaults, storage |-> StorageDefaults, server |-> ServerDefaults]

\* C10: Config.load returns, and does not raise, when the file is missing,
\* empty, or omits top-level keys or fields of a section, with or without an
\* API-key variable in the environment; every field the file omits has its
\* compiled-in default (api_key has the environment's value when there is
\* one, as C9 says) and every field it gives has the file's value.
C10_DefaultsForOmitted ==
    (LoadRan /\ FileOmitsOnly) =>
        /\ ~loaded.raised
        /\ \A k \in DOMAIN Defaults : \A f \in DOMAIN Defaults[k] :
              IF k = "imagen" /\ f = "api_key" /\ NonEmpty(EnvApiKey(environ))
              THEN loaded.config[k][f] = EnvApiKey(environ)
              ELSE IF FileGives(k, f)
                   THEN loaded.config[k][f] = FileSection(k).items[f]
                   ELSE loaded.config[k][f] = Defaults[k][f]

C10_Witness ==
    /\ LoadRan
    /\ configFile.exists
    /\ configFile.doc = Document(Omitted, Mapping(StorageGiven, {"use_s3"}), Omitted)
    /\ environ["GEMINI_API_KEY"] = "gemini-key"
    /\ ~loaded.raised
    /\ loaded.config.imagen.default_model = "gemini-2.5-flash-image"
    /\ loaded.config.storage.output_dir = "./generated_images"
    /\ loaded.config.storage.use_s3

(***************************************************************************)
(* The tool handlers of server.py.  A handler runs to its first await on   *)
(* the backend generator, or to an early return; the backend answers later *)
(***************************************************************************)
MaxClock == 1
MaxRequests == 2

\* the working directory of the server: two files, no output directory yet
ServerFs ==
    [p \in {"/w/i.png", "/w/n.txt", "/w/out"} |-> IF p = "/w/out" THEN "absent" ELSE "file"]

\* the configuration file and the environment the server is started with:
\* no file, a file naming a model, a key and an output directory, a file with
\* an invalid temperature, a file whose imagen section is null
GoogleKeySet == [EnvNothing EXCEPT !["GOOGLE_API_KEY"] = "google-key"]
ServerStarts ==
    { <<MissingFile, EnvNothing>>,
      <<File(Document(Mapping(ImagenGiven, {"default_model", "api_key"}),
                      Mapping(StorageGiven, {"output_dir"}), Omitted)), GoogleKeySet>>,
      <<File(Document(YMap([default_temperature |-> 11]), Omitted, Omitted)), EnvNothing>>,
      <<File(Document(YNull, Omitted, Omitted)), EnvNothing>>,
      <<File(Document(YNull, Omitted, Omitted)), GoogleKeySet>> }

Args(prompt, image_path, output_filename, aspect_ratio, temperature, model) ==
    [prompt |-> prompt, output_filename |-> output_filename, aspect_ratio |-> aspect_ratio,
     temperature |-> temperature, model |-> model, image_path |-> image_path,
     output_path |-> None]

\* generate_image(prompt, output_filename, aspect_ratio, temperature, model):
\* acceptable calls, and calls with one or several unacceptable arguments
GenerateArgs ==
    { Args("a cat", None, f, "16:9", 7, None) : f \in {None, "a", "b.PNG", "../e", "a\n"} }
    \cup { Args("a cat", None, "a", "16:9", 7, "gemini-3-pro-image-preview"),
           Args("a cat", None, "a", "16:9", 7, "gemini-3.1-flash-image-preview"),
           Args("  ", None, "a", "16:9", 7, None),
           Args("a cat", None, None, "5:5", 7, None),
           Args("a cat", None, "a", "16:9", 11, None),
           Args("  ", None, None, "5:5", 11, None) }

\* edit_image(prompt, input_image_path, output_filename, temperature)
EditArgs ==
    { Args("a hat", "i.png", f, None, 7, None) : f \in {None, "a.png", "../e", "/e"} }
    \cup { Args("a hat", i, None, None, 7, None) : i \in {"n.txt", "ghost.png"} }
    \cup { Args("", "i.png", None, None, 7, None),
           Args("a hat", "i.png", None, None, 11, None),
           Args("", "ghost.png", "../e", None, 11, None) }

\* analyze_image(image_path); a caller may send a prompt with the request,
\* the tool declares no such parameter
AnalyzeArgs ==
    { Args(None, i, None, None, NoArgs.temperature, None) :
        i \in {"i.png", "/w/i.png", "n.txt", "ghost.png", "out"} }
    \cup { Args(p, "i.png", None, None, NoArgs.temperature, None) :
             p \in {"which colours?", "  "} }

\* GeminiImageGenerator(...) returns or raises
Constructors == {"returns", "raises"}
ConstructorErrorText == "generator cannot be created"

Init ==
    /\ vcall = NoCall
    /\ vret = Ok(None)
    /\ fs = ServerFs
    /\ \E start \in ServerStarts : configFile = start[1] /\ environ = start[2]
    /\ loaded = NotLoaded
    /\ ServerIdle

\* the handler returns response
Return(call, response) == [call EXCEPT !.pc = "done", !.response = response]

\* the handler is suspended in generator.generate(...)
Await(call, path) == [call EXCEPT !.pc = "awaiting", !.output_path = path]

\* what the backend is asked; output_filename, the name the caller chose (None
\* when generate_output_path made one up), is kept with the request
Request(c, op, inputs, input_path, output_path, model_name) ==
    [call |-> c, op |-> op, prompt |-> inputs.prompt, input_path |-> input_path,
     output_path |-> output_path, output_filename |-> inputs.output_filename,
     model_name |-> model_name,
     aspect_ratio |-> inputs.aspect_ratio, temperature |-> inputs.temperature]

GenerateImage(c) ==
    /\ calls[c].pc = "idle"
    /\ Len(backendLog) < MaxRequests
    /\ \E args \in GenerateArgs, ctor \in Constructors :
         LET inputs == GenerateImageInput(args)
             call == [IdleCall EXCEPT !.tool = "generate_image", !.args = args,
                                      !.inputs = inputs, !.rejected = ~inputs.ok,
                                      !.exc = IF ~inputs.ok THEN "ValidationError" ELSE ""]
             gc == GetConfig(config, fs)
             output_path == Str(generate_output_path(gc.value, inputs.output_filename,
                                                     "generated", now))
             made == GetApiClient(client, gc.value)
             ready == GetGenerator(made)
             chosen == SetModel(ready, inputs.model)
         IN  IF ~inputs.ok
             THEN /\ calls' = [calls EXCEPT ![c] = Return(call, InvalidInputResponse(inputs.errors))]
                  /\ UNCHANGED <<config, client, fs, backendLog>>
             ELSE IF gc.raised
             THEN /\ calls' = [calls EXCEPT ![c] =
                                 Return([call EXCEPT !.exc = gc.exc],
                                        ConfigErrorResponse("generating", gc.exc))]
                  /\ config' = gc.global
                  /\ fs' = gc.files
                  /\ UNCHANGED <<client, backendLog>>
             ELSE IF ~made.generator.created /\ ctor = "raises"
             THEN /\ calls' = [calls EXCEPT ![c] =
                                 Return([call EXCEPT !.result = Failure(ConstructorErrorText)],
                                        format_api_result(Failure(ConstructorErrorText),
                                                          None, gc.files))]
                  /\ config' = gc.global
                  /\ fs' = gc.files
                  /\ client' = made
                  /\ UNCHANGED backendLog
             ELSE /\ calls' = [calls EXCEPT ![c] = Await(call, output_path)]
                  /\ config' = gc.global
                  /\ fs' = gc.files
                  /\ client' = chosen
                  /\ backendLog' = Append(backendLog,
                                     Request(c, "generate", inputs, None, output_path,
                                             chosen.generator.model_name))
    /\ UNCHANGED <<vcall, vret, configFile, environ, loaded, now>>

EditImage(c) ==
    /\ calls[c].pc = "idle"
    /\ Len(backendLog) < MaxRequests
    /\ \E args \in EditArgs, ctor \in Constructors :
         LET inputs == EditImageInput(args)
             call == [IdleCall EXCEPT !.tool = "edit_image", !.args = args,
                                      !.inputs = inputs, !.rejected = ~inputs.ok,
                                      !.exc = IF ~inputs.ok THEN "ValidationError" ELSE ""]
             gc == GetConfig(config, fs)
             output_path == Str(generate_output_path(gc.value, inputs.output_filename,
                                                     "edited", now))
             made == GetApiClient(client, gc.value)
             ready == GetGenerator(made)
         IN  IF ~inputs.ok
             THEN /\ calls' = [calls EXCEPT ![c] = Return(call, InvalidInputResponse(inputs.errors))]
                  /\ UNCHANGED <<config, client, fs, backendLog>>
             ELSE IF gc.raised
             THEN /\ calls' = [calls EXCEPT ![c] =
                                 Return([call EXCEPT !.exc = gc.exc],
                                        ConfigErrorResponse("editing", gc.exc))]
                  /\ config' = gc.global
                  /\ fs' = gc.files
                  /\ UNCHANGED <<client, backendLog>>
             ELSE IF ~made.generator.created /\ ctor = "raises"
             THEN /\ calls' = [calls EXCEPT ![c] =
                                 Return([call EXCEPT !.result = Failure(ConstructorErrorText)],
                                        format_api_result(Failure(ConstructorErrorText),
                                                          None, gc.files))]
                  /\ config' = gc.global
                  /\ fs' = gc.files
                  /\ client' = made
                  /\ UNCHANGED backendLog
             ELSE /\ calls' = [calls EXCEPT ![c] = Await(call, output_path)]
                  /\ config' = gc.global
                  /\ fs' = gc.files
                  /\ client' = ready
                  /\ backendLog' = Append(backendLog,
                                     Request(c, "edit", inputs,
                                             Str(PurePath(inputs.image_path)), output_path,
                                             ready.generator.model_name))
    /\ UNCHANGED <<vcall, vret, configFile, environ, loaded, now>>

\* a faulty variant: the adapter's error is dropped
AnalysisFailedFixedText(result) == Response(FALSE, "Analysis failed")

\* result.error or "Analysis failed"
AnalysisFailed(result) ==
    Response(FALSE, IF Truthy(result.error) THEN result.error ELSE "Analysis failed")

AnalyzeImage(c) ==
    /\ calls[c].pc = "idle"
    /\ Len(backendLog) < MaxRequests
    /\ \E args \in AnalyzeArgs, ctor \in Constructors :
         LET inputs == AnalyzeImageInput(args)
             call == [IdleCall EXCEPT !.tool = "analyze_image", !.args = args,
                                      !.inputs = inputs, !.rejected = ~inputs.ok,
                                      !.exc = IF ~inputs.ok THEN "ValidationError" ELSE ""]
             gc == IF client.created
                   THEN [raised |-> FALSE, exc |-> "", value |-> config, global |-> config,
                         files |-> fs]
                   ELSE GetConfig(config, fs)
             made == GetApiClient(client, gc.value)
             ready == GetGenerator(made)
         IN  IF ~inputs.ok
             THEN /\ calls' = [calls EXCEPT ![c] = Return(call, InvalidInputResponse(inputs.errors))]
                  /\ UNCHANGED <<config, client, fs, backendLog>>
             ELSE IF gc.raised
             THEN /\ calls' = [calls EXCEPT ![c] =
                                 Return([call EXCEPT !.exc = gc.exc],
                                        ConfigErrorResponse("analyzing", gc.exc))]
                  /\ config' = gc.global
                  /\ fs' = gc.files
                  /\ UNCHANGED <<client, backendLog>>
             ELSE IF ~made.generator.created /\ ctor = "raises"
             THEN /\ calls' = [calls EXCEPT ![c] =
                                 Return([call EXCEPT !.result = Failure(ConstructorErrorText)],
                                        AnalysisFailed(Failure(ConstructorErrorText)))]
                  /\ config' = gc.global
                  /\ fs' = gc.files
                  /\ client' = made
                  /\ UNCHANGED backendLog
             ELSE /\ calls' = [calls EXCEPT ![c] = Await(call, None)]
                  /\ config' = gc.global
                  /\ fs' = gc.files
                  /\ client' = ready
                  /\ backendLog' = Append(backendLog,
                                     Request(c, "analyze",
                                             [inputs EXCEPT !.prompt = DEFAULT_ANALYSIS_PROMPT],
                                             Str(PurePath(inputs.image_path)), None,
                                             ready.generator.model_name))
    /\ UNCHANGED <<vcall, vret, configFile, environ, loaded, now>>

\* ImagenAPIClient.list_models: the three model records, no backend call
MODEL_NAMES ==
    <<"gemini-2.5-flash-image", "gemini-3-pro-image-preview", "gemini-3.1-flash-image-preview">>

\* a faulty variant: the list of models is empty
ListModelsResultEmpty ==
    Success("Found 0 available models", NoList, [NoData EXCEPT !.present = TRUE])

\* ImagenAPIClient.list_models: no backend is called
ListModelsResult ==
    Success("Found " \o ToString(Len(MODEL_NAMES)) \o " available models", NoList,
            [NoData EXCEPT !.present = TRUE, !.models = MODEL_NAMES])

\* ImagenAPIClient.generate after the await: the GenerationResult, self
\* being the client
GenerateResult(self, output_path, model, outcome) ==
    IF outcome \in {"image", "two images", "image not written"}
    THEN Success("Image generated successfully at " \o output_path,
                 List(<<output_path>>),
                 [NoData EXCEPT !.present = TRUE,
                                !.model = IF Truthy(model) THEN model ELSE self.model_name])
    ELSE IF outcome = "no images" THEN Failure("No images generated")
    ELSE Failure(RaisedText(outcome))

\* a faulty variant: a backend call that returns is a success, images or not
EditResultWhenReturned(self, output_path, outcome) ==
    IF outcome \in {"image", "two images", "image not written", "no images"}
    THEN Success("Image edited successfully at " \o output_path,
                 List(<<output_path>>),
                 [NoData EXCEPT !.present = TRUE, !.model = self.model_name])
    ELSE Failure(RaisedText(outcome))

\* ImagenAPIClient.edit after the await
EditResult(self, output_path, outcome) ==
    IF outcome \in {"image", "two images", "image not written"}
    THEN Success("Image edited successfully at " \o output_path,
                 List(<<output_path>>),
                 [NoData EXCEPT !.present = TRUE, !.model = self.model_name])
    ELSE IF outcome = "no images" THEN Failure("No images generated")
    ELSE Failure(RaisedText(outcome))

\* a faulty variant: an exception of the backend counts as an empty analysis
\* that succeeded
AnalyzeResultSwallows(outcome) ==
    IF outcome = "no text" THEN Failure("No analysis generated")
    ELSE Success(IF outcome = "text" THEN AnalysisText ELSE "", NoList,
                 [NoData EXCEPT !.present = TRUE,
                                !.analysis = IF outcome = "text" THEN AnalysisText ELSE ""])

\* ImagenAPIClient.analyze after the await
AnalyzeResult(outcome) ==
    IF outcome = "text"
    THEN Success(AnalysisText, NoList,
                 [NoData EXCEPT !.present = TRUE, !.analysis = AnalysisText])
    ELSE IF outcome = "no text" THEN Failure("No analysis generated")
    ELSE Failure(RaisedText(outcome))

\* the result client.generate / client.edit gives the handler
ImageResult(call, outcome) ==
    IF call.tool = "generate_image"
    THEN GenerateResult(client, call.output_path, call.inputs.model, outcome)
    ELSE EditResult(client, call.output_path, outcome)

\* the backend has written the image it returns
Written(outcome) == outcome \in {"image", "two images"}

\* generator.generate(...) completes for a generate_image or edit_image call
\* and the handler runs to its return
ImageBackendGives(c, outcome) ==
    /\ calls[c].pc = "awaiting"
    /\ calls[c].tool \in {"generate_image", "edit_image"}
    /\ LET call == calls[c]
           result == ImageResult(call, outcome)
           files == IF Written(outcome) THEN WriteFile(fs, call.output_path) ELSE fs
       IN  /\ fs' = files
           /\ calls' = [calls EXCEPT ![c] =
                          Return([call EXCEPT !.backend = outcome, !.result = result],
                                 format_api_result(result,
                                     IF result.success THEN call.output_path ELSE None,
                                     files))]
    /\ UNCHANGED <<vcall, vret, configFile, environ, loaded, config, client, now, backendLog>>

ImageBackendReturns(c) == \E outcome \in GenerateOutcomes : ImageBackendGives(c, outcome)

\* generator.generate(...) completes for an analyze_image call
AnalysisBackendGives(c, outcome) ==
    /\ calls[c].pc = "awaiting"
    /\ calls[c].tool = "analyze_image"
    /\ LET call == calls[c]
           result == AnalyzeResult(outcome)
       IN  calls' = [calls EXCEPT ![c] =
                       Return([call EXCEPT !.backend = outcome, !.result = result],
                              IF result.success /\ result.data.present
                              THEN [Response(TRUE, None) EXCEPT
                                      !.analysis = result.data.analysis,
                                      !.image_path = call.inputs.image_path]
                              ELSE AnalysisFailed(result))]
    /\ UNCHANGED <<vcall, vret, fs, configFile, environ, loaded, config, client, now, backendLog>>

AnalysisBackendReturns(c) == \E outcome \in AnalyzeOutcomes : AnalysisBackendGives(c, outcome)

\* the fallback list of list_available_models
BasicModels == <<"gemini-2.5-flash-image", "gemini-3-pro-image-preview">>

\* list_available_models(): get_api_client, client.list_models, the response;
\* the recommendation and the note go with the models
ListAvailableModels(c) ==
    /\ calls[c].pc = "idle"
    /\ LET call == [IdleCall EXCEPT !.tool = "list_available_models"]
           gc == IF client.created
                 THEN [raised |-> FALSE, exc |-> "", value |-> config, global |-> config,
                       files |-> fs]
                 ELSE GetConfig(config, fs)
           result == ListModelsResult
       IN  IF gc.raised
           THEN /\ calls' = [calls EXCEPT ![c] =
                               Return([call EXCEPT !.exc = gc.exc],
                                      Response(FALSE, "Error listing models: "
                                                        \o ExcText(gc.exc)))]
                /\ config' = gc.global
                /\ fs' = gc.files
                /\ UNCHANGED client
           ELSE /\ calls' = [calls EXCEPT ![c] =
                               Return([call EXCEPT !.result = result],
                                      [Response(TRUE, None) EXCEPT !.models =
                                         IF result.success /\ result.data.present
                                         THEN List(result.data.models)
                                         ELSE List(BasicModels)])]
                /\ config' = gc.global
                /\ fs' = gc.files
                /\ client' = GetApiClient(client, gc.value)
    /\ UNCHANGED <<vcall, vret, configFile, environ, loaded, now, backendLog>>

\* the caller reads the response; the call slot is free for the next call
NextCall(c) ==
    /\ calls[c].pc = "done"
    /\ calls' = [calls EXCEPT ![c] = IdleCall]
    /\ UNCHANGED <<vcall, vret, fs, configFile, environ, loaded, config, client, now, backendLog>>

\* datetime.now() moves on
Tick ==
    /\ now < MaxClock
    /\ now' = now + 1
    /\ UNCHANGED <<vcall, vret, fs, configFile, environ, loaded, config, client, calls, backendLog>>

Next ==
    \/ \E c \in CallIds : GenerateImage(c)
    \/ \E c \in CallIds : EditImage(c)
    \/ \E c \in CallIds : AnalyzeImage(c)
    \/ \E c \in CallIds : ImageBackendReturns(c)
    \/ \E c \in CallIds : AnalysisBackendReturns(c)
    \/ \E c \in CallIds : ListAvailableModels(c)
    \/ \E c \in CallIds : NextCall(c)
    \/ Tick

Spec == Init /\ [][Next]_vars

(***************************************************************************)
(* Claims about the tool handlers                                          *)
(***************************************************************************)
\* the pydantic model a tool builds from its arguments
ToolInput(tool, args) ==
    IF tool = "generate_image" THEN GenerateImageInput(args)
    ELSE IF tool = "edit_image" THEN EditImageInput(args)
    ELSE AnalyzeImageInput(args)

\* the step in which call c is made: its handler runs to a return or an await
CallMade(c) == calls[c].pc = "idle" /\ calls'[c].pc # "idle"

\* C1: for generate_image, edit_image and analyze_image, whenever the
\* validator rejects the arguments of a call, the handler returns in that same
\* step without any request reaching the backend adapter, and the response is
\* exactly {success: false, message: "Invalid input: " + the validation error}
C1_RejectedShortCircuits ==
    [][\A c \in CallIds :
         (/\ CallMade(c)
          /\ calls'[c].tool \in {"generate_image", "edit_image", "analyze_image"}
          /\ ~ToolInput(calls'[c].tool, calls'[c].args).ok)
           => /\ calls'[c].pc = "done"
              /\ backendLog' = backendLog
              /\ client' = client
              /\ calls'[c].response =
                   [NoResponse EXCEPT
                      !.returned = TRUE,
                      !.success = FALSE,
                      !.message = "Invalid input: "
                                    \o ToolInput(calls'[c].tool, calls'[c].args).errors]]_vars

\* an edit_image call rejected by the validator has returned, on a server
\* whose backend has already served a request
C1_Witness ==
    \E c \in CallIds :
        /\ calls[c].pc = "done"
        /\ calls[c].tool = "edit_image"
        /\ calls[c].rejected
        /\ calls[c].response.message = InvalidInputResponse(calls[c].inputs.errors).message
        /\ Len(backendLog) = 1

\* C3: for every generate_image or edit_image call that passed validation and
\* gave an output_filename, the path handed to the backend is the output
\* directory followed by the one component that is the normalized filename,
\* neither "." nor ".."
C3_OutputPathInsideOutputDir ==
    \A c \in CallIds :
        (/\ calls[c].pc = "awaiting"
         /\ calls[c].tool \in {"generate_image", "edit_image"}
         /\ Truthy(calls[c].args.output_filename))
          => LET output_dir == PurePath(config.storage.output_dir)
                 handed == PurePath(calls[c].output_path)
                 name == calls[c].inputs.output_filename
             IN  /\ handed.abs = output_dir.abs
                 /\ handed.parts = output_dir.parts \o <<name>>
                 /\ name \notin {".", ".."}

\* the same property for generate_image calls alone, whose filename is validated
GenerateOutputPathInsideOutputDir ==
    \A c \in CallIds :
        (/\ calls[c].pc = "awaiting"
         /\ calls[c].tool = "generate_image"
         /\ Truthy(calls[c].args.output_filename))
          => LET output_dir == PurePath(config.storage.output_dir)
                 handed == PurePath(calls[c].output_path)
                 name == calls[c].inputs.output_filename
             IN  /\ handed.abs = output_dir.abs
                 /\ handed.parts = output_dir.parts \o <<name>>
                 /\ name \notin {".", ".."}

(***************************************************************************)
(* config.py: get_config and reload_config, called between the tool calls  *)
(***************************************************************************)
MaxInstances == 2

\* what a call of get_config or reload_config gave its caller: the object
\* returned (reload_config returns None) or the exception
Gave(raised, exc, value) == [raised |-> raised, exc |-> exc, config |-> value]

\* get_config() called from outside the three handlers (get_server_info, main)
CallGetConfig ==
    /\ \A c \in CallIds : calls[c].pc = "idle"
    /\ LET gc == GetConfig(config, fs)
       IN  /\ config' = gc.global
           /\ fs' = gc.files
           /\ loaded' = Gave(gc.raised, gc.exc, IF gc.raised THEN NoConfig ELSE gc.value)
    /\ UNCHANGED <<vcall, vret, configFile, environ, client, now, calls, backendLog>>

\* reload_config()
ReloadConfig ==
    /\ Serial(config) < MaxInstances
    /\ LET r == LoadInto(config, fs)
       IN  /\ config' = r.global
           /\ fs' = r.files
           /\ loaded' = Gave(r.raised, r.exc, NoConfig)
    /\ UNCHANGED <<vcall, vret, configFile, environ, client, now, calls, backendLog>>

\* the server is started with GOOGLE_API_KEY set
LifecycleInit ==
    /\ vcall = NoCall
    /\ vret = Ok(None)
    /\ fs = ServerFs
    /\ \E start \in ServerStarts :
         start[2] = GoogleKeySet /\ configFile = start[1] /\ environ = start[2]
    /\ loaded = NotLoaded
    /\ ServerIdle

LifecycleNext ==
    \/ CallGetConfig
    \/ ReloadConfig
    \/ \E c \in CallIds : GenerateImage(c)
    \/ \E c \in CallIds : EditImage(c)
    \/ \E c \in CallIds : AnalyzeImage(c)
    \/ \E c \in CallIds : ImageBackendReturns(c)
    \/ \E c \in CallIds : AnalysisBackendReturns(c)
    \/ \E c \in CallIds : ListAvailableModels(c)
    \/ \E c \in CallIds : NextCall(c)

SpecLifecycle == LifecycleInit /\ [][LifecycleNext]_vars

\* C11: in any sequence of get_config, reload_config and tool calls: a
\* get_config call made while _config is None builds the configuration and
\* returns the object it installs; a get_config call made while _config is set
\* returns that very object and leaves it in place; and a step that leaves a
\* different object in _config is either the first build from None or a
\* reload_config, which installs an object built after every earlier one - no
\* tool handler replaces or changes the object in place
C11_SingleInstanceUntilReload ==
    [][/\ (CallGetConfig /\ config # NoConfig)
            => (loaded'.config = config /\ config' = config)
       /\ (CallGetConfig /\ config = NoConfig /\ ~loaded'.raised)
            => (config' # NoConfig /\ loaded'.config = config' /\ Serial(config') = 1)
       /\ (config' # config)
            => /\ config = NoConfig \/ ReloadConfig
               /\ Serial(config') = Serial(config) + 1
       /\ (\E c \in CallIds : calls'[c] # calls[c])
            => (config # NoConfig => config' = config)]_vars

\* after a reload that replaced the first object, get_config has returned the
\* second one, on a server whose handlers have served a request meanwhile
C11_Witness ==
    /\ Serial(config) = 2
    /\ ~loaded.raised
    /\ loaded.config = config
    /\ Len(backendLog) >= 1

(***************************************************************************)
(* The backend adapters called directly, as the unit tests call them:      *)
(* ImagenAPIClient (utils/api_client.py) and ImagenCLI (utils/cli.py)       *)
(***************************************************************************)
\* ImagenAPIClient(): model_name, api_key and _generator as __init__ leaves them
DefaultClient ==
    [created |-> TRUE, model_name |-> "gemini-2.5-flash-image", api_key |-> None,
     generator |-> NoGenerator]

\* arguments of an adapter operation
AdapterArgs(prompt, input_path, output_path, aspect_ratio, temperature, model) ==
    [Args(prompt, input_path, None, aspect_ratio, temperature, model)
       EXCEPT !.output_path = output_path]

\* ImagenAPIClient.generate(prompt, output_path, aspect_ratio, temperature, model)
ClientGenerateArgs ==
    { AdapterArgs("a cat", None, o, "16:9", 7, m) :
        o \in {"out/a.png", "/w/b.png"}, m \in {None, "", "gemini-3-pro-image-preview"} }

\* ImagenAPIClient.edit(prompt, input_path, output_path, temperature)
ClientEditArgs ==
    { AdapterArgs("a hat", i, "out/a.png", None, 7, None) : i \in {"/w/i.png", "/w/ghost.png"} }

\* ImagenAPIClient.analyze(image_path, prompt)
ClientAnalyzeArgs ==
    { AdapterArgs(p, "/w/i.png", None, None, 7, None) : p \in {None, "", "which colours?"} }

\* the adapter operation returns result
Returns(call, result) == [call EXCEPT !.pc = "done", !.result = result]

\* a faulty variant: the prompt is passed on as it is, None included
PromptAsGiven(prompt) == prompt

\* prompt or DEFAULT_ANALYSIS_PROMPT
PromptOrDefault(prompt) == IF Truthy(prompt) THEN prompt ELSE DEFAULT_ANALYSIS_PROMPT

\* ImagenAPIClient.generate, to the await on the backend or to the return of
\* the except clause
ClientGenerate(c) ==
    /\ calls[c].pc = "idle"
    /\ Len(backendLog) < MaxRequests
    /\ \E args \in ClientGenerateArgs, ctor \in Constructors :
         LET call == [IdleCall EXCEPT !.tool = "ImagenAPIClient.generate", !.args = args,
                                      !.inputs = [NoInputs EXCEPT !.model = args.model]]
             ready == GetGenerator(client)
             chosen == SetModel(ready, args.model)
         IN  IF ~client.generator.created /\ ctor = "raises"
             THEN /\ calls' = [calls EXCEPT ![c] = Returns(call, Failure(ConstructorErrorText))]
                  /\ UNCHANGED <<client, backendLog>>
             ELSE /\ calls' = [calls EXCEPT ![c] = Await(call, args.output_path)]
                  /\ client' = chosen
                  /\ backendLog' = Append(backendLog,
                                     Request(c, "generate", args, None, args.output_path,
                                             chosen.generator.model_name))
    /\ UNCHANGED <<vcall, vret, fs, configFile, environ, loaded, config, now>>

\* ImagenAPIClient.edit, to the await or to the return of the except clause
ClientEdit(c) ==
    /\ calls[c].pc = "idle"
    /\ Len(backendLog) < MaxRequests
    /\ \E args \in ClientEditArgs, ctor \in Constructors :
         LET call == [IdleCall EXCEPT !.tool = "ImagenAPIClient.edit", !.args = args]
             ready == GetGenerator(client)
         IN  IF ~client.generator.created /\ ctor = "raises"
             THEN /\ calls' = [calls EXCEPT ![c] = Returns(call, Failure(ConstructorErrorText))]
                  /\ UNCHANGED <<client, backendLog>>
             ELSE /\ calls' = [calls EXCEPT ![c] = Await(call, args.output_path)]
                  /\ client' = ready
                  /\ backendLog' = Append(backendLog,
                                     Request(c, "edit", args, args.image_path, args.output_path,
                                             ready.generator.model_name))
    /\ UNCHANGED <<vcall, vret, fs, configFile, environ, loaded, config, now>>

\* ImagenAPIClient.analyze, to the await or to the return of the except clause
ClientAnalyze(c) ==
    /\ calls[c].pc = "idle"
    /\ Len(backendLog) < MaxRequests
    /\ \E args \in ClientAnalyzeArgs, ctor \in Constructors :
         LET call == [IdleCall EXCEPT !.tool = "ImagenAPIClient.analyze", !.args = args]
             ready == GetGenerator(client)
         IN  IF ~client.generator.created /\ ctor = "raises"
             THEN /\ calls' = [calls EXCEPT ![c] = Returns(call, Failure(ConstructorErrorText))]
                  /\ UNCHANGED <<client, backendLog>>
             ELSE /\ calls' = [calls EXCEPT ![c] = Await(call, None)]
                  /\ client' = ready
                  /\ backendLog' = Append(backendLog,
                                     Request(c, "analyze",
                                             [args EXCEPT !.prompt = PromptOrDefault(args.prompt)],
                                             args.image_path, None,
                                             ready.generator.model_name))
    /\ UNCHANGED <<vcall, vret, fs, configFile, environ, loaded, config, now>>

\* generator.generate(...) completes and the adapter operation returns
ClientBackendReturns(c) ==
    /\ calls[c].pc = "awaiting"
    /\ calls[c].tool \in {"ImagenAPIClient.generate", "ImagenAPIClient.edit",
                          "ImagenAPIClient.analyze"}
    /\ LET call == calls[c]
       IN  IF call.tool = "ImagenAPIClient.analyze"
           THEN \E outcome \in AnalyzeOutcomes :
                  /\ calls' = [calls EXCEPT ![c] =
                                 Returns([call EXCEPT !.backend = outcome],
                                         AnalyzeResult(outcome))]
                  /\ fs' = fs
           ELSE \E outcome \in GenerateOutcomes :
                  /\ calls' = [calls EXCEPT ![c] =
                                 Returns([call EXCEPT !.backend = outcome],
                                         IF call.tool = "ImagenAPIClient.generate"
                                         THEN GenerateResult(client, call.output_path,
                                                             call.args.model, outcome)
                                         ELSE EditResult(client, call.output_path, outcome))]
                  /\ fs' = IF Written(outcome) THEN WriteFile(fs, call.output_path) ELSE fs
    /\ UNCHANGED <<vcall, vret, configFile, environ, loaded, config, client, now, backendLog>>

ClientListModels(c) ==
    /\ calls[c].pc = "idle"
    /\ calls' = [calls EXCEPT ![c] =
                   Returns([IdleCall EXCEPT !.tool = "ImagenAPIClient.list_models"],
                           ListModelsResult)]
    /\ UNCHANGED <<vcall, vret, fs, configFile, environ, loaded, config, client, now, backendLog>>

(***************************************************************************)
(* utils/cli.py: ImagenCLI runs the imagen command in a subprocess         *)
(***************************************************************************)
\* ImagenCLI(timeout=120)
CliTimeout == 120

\* None for an Optional[float]
NoTemperature == -1

\* str(temperature), the temperature being kept in tenths
FloatText(t) == IF t >= 10 THEN ToString(t \div 10) \o "." \o ToString(t % 10)
                ELSE "0." \o ToString(t)

\* json.loads(output): the parsed mapping, or JSONDecodeError
NoJson == [present |-> FALSE, images |-> <<>>]
JsonLoads(output) ==
    IF output = "{\"status\": \"success\", \"images\": [\"out/a.png\"]}"
    THEN [raised |-> FALSE, value |-> [present |-> TRUE, images |-> <<"out/a.png">>]]
    ELSE IF output = "{\"status\": \"success\", \"images\": []}"
    THEN [raised |-> FALSE, value |-> [present |-> TRUE, images |-> <<>>]]
    ELSE [raised |-> TRUE, value |-> NoJson]

\* CLIResult
CLIResult(success, output, error, return_code, data) ==
    [returned |-> TRUE, success |-> success, output |-> output, error |-> error,
     return_code |-> return_code, data |-> data]

\* what the subprocess does when it exits: its return code, what it printed
\* and whether it wrote the output image
Exits ==
    [returncode : {0, 1},
     stdout : {"", " {\"status\": \"success\", \"images\": [\"out/a.png\"]}\n",
               "{\"status\": \"success\", \"images\": []}", "not valid json"},
     stderr : {"", "API key invalid\n"},
     wrote : BOOLEAN]

\* a faulty variant: what the command wrote to stderr is reported as the error
\* whatever the return code
RunCommandResultWithStderr(exit, parse_json) ==
    LET output == Strip(exit.stdout)
        data == IF parse_json /\ output # "" /\ ~JsonLoads(output).raised
                THEN JsonLoads(output).value
                ELSE NoJson
    IN  CLIResult(exit.returncode = 0, output, Strip(exit.stderr), exit.returncode, data)

\* _run_command after subprocess.run has returned
RunCommandResult(exit, parse_json) ==
    LET output == Strip(exit.stdout)
        error == IF exit.returncode # 0 THEN Strip(exit.stderr) ELSE None
        data == IF parse_json /\ output # "" /\ ~JsonLoads(output).raised
                THEN JsonLoads(output).value
                ELSE NoJson
    IN  CLIResult(exit.returncode = 0, output, error, exit.returncode, data)

\* a faulty variant: the timeout is reported like a command that failed
TimedOutResultAsExit ==
    CLIResult(FALSE, "", "", 1, NoJson)

\* _run_command, except subprocess.TimeoutExpired
TimedOutResult ==
    CLIResult(FALSE, "", "Command timed out after " \o ToString(CliTimeout) \o "s", -1, NoJson)

\* _run_command, except Exception: subprocess.run could not start the command
SpawnErrorText == "[Errno 2] No such file or directory: 'imagen'"
Spawns == {"starts", "raises"}

\* args.extend([flag, value]) when the value is given
Extend(flag, value) == IF Truthy(value) THEN <<flag, value>> ELSE <<>>

\* ImagenCLI.generate(prompt, output_path, aspect_ratio, temperature, model)
CliGenerateArgs ==
    { AdapterArgs("a cat", None, "out/a.png", a, t, m) :
        a \in {None, "16:9"}, t \in {NoTemperature, 7}, m \in {None, "gemini-3-pro-image-preview"} }

\* ImagenCLI.edit(prompt, input_path, output_path, temperature)
CliEditArgs ==
    { AdapterArgs("a hat", "/w/i.png", "out/a.png", None, t, None) : t \in {NoTemperature, 10} }

\* _run_command(args, parse_json=True) up to the start of the subprocess
RunCommand(c, call, args, spawn) ==
    IF spawn = "raises"
    THEN /\ calls' = [calls EXCEPT ![c] =
                        Returns(call, CLIResult(FALSE, "", SpawnErrorText, -1, NoJson))]
         /\ UNCHANGED backendLog
    ELSE /\ calls' = [calls EXCEPT ![c] = [call EXCEPT !.pc = "running"]]
         /\ backendLog' = Append(backendLog,
                            [call |-> c, op |-> "subprocess", command |-> <<"imagen">> \o args,
                             timeout |-> CliTimeout])

CliGenerate(c) ==
    /\ calls[c].pc = "idle"
    /\ Len(backendLog) < MaxRequests
    /\ \E a \in CliGenerateArgs, spawn \in Spawns :
         RunCommand(c, [IdleCall EXCEPT !.tool = "ImagenCLI.generate", !.args = a,
                                        !.output_path = a.output_path],
                    <<"generate", a.prompt, "-o", a.output_path, "--json">>
                      \o Extend("--aspect-ratio", a.aspect_ratio)
                      \o (IF a.temperature # NoTemperature
                          THEN <<"--temperature", FloatText(a.temperature)>> ELSE <<>>)
                      \o Extend("--model", a.model),
                    spawn)
    /\ UNCHANGED <<vcall, vret, fs, configFile, environ, loaded, config, client, now>>

CliEdit(c) ==
    /\ calls[c].pc = "idle"
    /\ Len(backendLog) < MaxRequests
    /\ \E a \in CliEditArgs, spawn \in Spawns :
         RunCommand(c, [IdleCall EXCEPT !.tool = "ImagenCLI.edit", !.args = a,
                                        !.output_path = a.output_path],
                    <<"generate", a.prompt, "-i", a.image_path, "-o", a.output_path, "--json">>
                      \o (IF a.temperature # NoTemperature
                          THEN <<"--temperature", FloatText(a.temperature)>> ELSE <<>>),
                    spawn)
    /\ UNCHANGED <<vcall, vret, fs, configFile, environ, loaded, config, client, now>>

CliAnalyze(c) ==
    /\ calls[c].pc = "idle"
    /\ Len(backendLog) < MaxRequests
    /\ \E i \in {"/w/i.png", "/w/ghost.png"}, spawn \in Spawns :
         RunCommand(c, [IdleCall EXCEPT !.tool = "ImagenCLI.analyze",
                                        !.args = [NoArgs EXCEPT !.image_path = i]],
                    <<"analyze", i, "--json">>, spawn)
    /\ UNCHANGED <<vcall, vret, fs, configFile, environ, loaded, config, client, now>>

CliListModels(c) ==
    /\ calls[c].pc = "idle"
    /\ Len(backendLog) < MaxRequests
    /\ \E spawn \in Spawns :
         RunCommand(c, [IdleCall EXCEPT !.tool = "ImagenCLI.list_models"],
                    <<"models", "list", "--json">>, spawn)
    /\ UNCHANGED <<vcall, vret, fs, configFile, environ, loaded, config, client, now>>

\* the subprocess exits within the timeout and _run_command returns
SubprocessExits(c) ==
    /\ calls[c].pc = "running"
    /\ \E exit \in Exits :
         /\ calls' = [calls EXCEPT ![c] =
                        Returns([calls[c] EXCEPT !.backend = IF exit.wrote THEN "image"
                                                             ELSE "no images"],
                                RunCommandResult(exit, TRUE))]
         /\ fs' = IF exit.wrote /\ calls[c].output_path # None
                  THEN WriteFile(fs, calls[c].output_path) ELSE fs
    /\ UNCHANGED <<vcall, vret, configFile, environ, loaded, config, client, now, backendLog>>

\* the subprocess is still running when the timeout expires: subprocess.run
\* raises TimeoutExpired and _run_command returns
SubprocessTimesOut(c) ==
    /\ calls[c].pc = "running"
    /\ calls' = [calls EXCEPT ![c] = Returns([calls[c] EXCEPT !.backend = "timeout"],
                                             TimedOutResult)]
    /\ UNCHANGED <<vcall, vret, fs, configFile, environ, loaded, config, client, now, backendLog>>

\* a client and a command-line adapter have been constructed
AdaptersInit ==
    /\ vcall = NoCall
    /\ vret = Ok(None)
    /\ fs = ServerFs
    /\ configFile = MissingFile
    /\ environ = EnvNothing
    /\ loaded = NotLoaded
    /\ config = NoConfig
    /\ client = DefaultClient
    /\ now = 0
    /\ calls = [c \in CallIds |-> IdleCall]
    /\ backendLog = <<>>

AdaptersNext ==
    \/ \E c \in CallIds : ClientGenerate(c)
    \/ \E c \in CallIds : ClientEdit(c)
    \/ \E c \in CallIds : ClientAnalyze(c)
    \/ \E c \in CallIds : ClientBackendReturns(c)
    \/ \E c \in CallIds : ClientListModels(c)
    \/ \E c \in CallIds : CliGenerate(c)
    \/ \E c \in CallIds : CliEdit(c)
    \/ \E c \in CallIds : CliAnalyze(c)
    \/ \E c \in CallIds : CliListModels(c)
    \/ \E c \in CallIds : SubprocessExits(c)
    \/ \E c \in CallIds : SubprocessTimesOut(c)
    \/ \E c \in CallIds : NextCall(c)

SpecAdapters == AdaptersInit /\ [][AdaptersNext]_vars

\* subprocess.run(..., timeout=self.timeout) raises TimeoutExpired when the
\* time is up: a command that is still running does not stay so for ever
AdaptersFairness == \A c \in CallIds : WF_vars(SubprocessTimesOut(c))
SpecAdaptersLive == SpecAdapters /\ AdaptersFairness

(***************************************************************************)
(* Properties of the backend adapters                                      *)
(***************************************************************************)
\* call c has returned from the adapter operation named
ReturnedFrom(c, operations) == calls[c].pc = "done" /\ calls[c].tool \in operations

\* the backend call of c returned, without an exception, some images
GaveImages(c) == calls[c].backend \in {"image", "two images", "image not written"}

\* C12: for ImagenAPIClient.generate and ImagenAPIClient.edit, when the
\* backend call returned without an exception and with no images the result
\* is success=false with error "No images generated"; when it returned one
\* image or more the result is success=true and image_paths is the list of
\* one element, the requested output path
C12_NoImagesIsFailure ==
    \A c \in CallIds :
        ReturnedFrom(c, {"ImagenAPIClient.generate", "ImagenAPIClient.edit"})
          => /\ calls[c].backend = "no images"
                  => /\ ~calls[c].result.success
                     /\ calls[c].result.error = "No images generated"
             /\ GaveImages(c)
                  => /\ calls[c].result.success
                     /\ calls[c].result.image_paths = List(<<calls[c].args.output_path>>)

\* an edit whose backend call returned no image has returned its result
C12_Witness ==
    \E c \in CallIds :
        /\ ReturnedFrom(c, {"ImagenAPIClient.edit"})
        /\ calls[c].backend = "no images"
        /\ calls[c].result.error = "No images generated"

\* the request the backend received from call c, the latest one under its name
RequestOf(c) ==
    backendLog[CHOOSE i \in 1..Len(backendLog) :
                 /\ backendLog[i].call = c
                 /\ \A j \in (i + 1)..Len(backendLog) : backendLog[j].call # c]

\* call c has invoked the backend
Invoked(c) == calls[c].pc = "awaiting" \/ (calls[c].pc = "done" /\ calls[c].backend # "")

\* C13, as stated: ImagenAPIClient.analyze invokes the backend with the
\* given prompt whenever one is supplied (anything but None) and with
\* DEFAULT_ANALYSIS_PROMPT when it is omitted; the result is success=true iff
\* the backend returned non-empty text, output and data.analysis then being
\* that text, and in every other case success=false with error "No analysis
\* generated"
C13_AnalyzeAsStated ==
    \A c \in CallIds :
        /\ (calls[c].tool = "ImagenAPIClient.analyze" /\ Invoked(c))
             => RequestOf(c).prompt = IF calls[c].args.prompt # None
                                      THEN calls[c].args.prompt
                                      ELSE DEFAULT_ANALYSIS_PROMPT
        /\ ReturnedFrom(c, {"ImagenAPIClient.analyze"})
             => /\ calls[c].result.success <=> calls[c].backend = "text"
                /\ calls[c].result.success
                     => /\ calls[c].result.output = AnalysisText
                        /\ calls[c].result.data.analysis = AnalysisText
                /\ ~calls[c].result.success
                     => calls[c].result.error = "No analysis generated"

\* C13, amended: ImagenAPIClient.analyze invokes the backend with the given
\* prompt when a non-empty one is supplied and with DEFAULT_ANALYSIS_PROMPT
\* when the prompt is omitted or empty; the result is success=true iff the
\* backend returned non-empty text, output and data.analysis then being that
\* text; it is success=false with error "No analysis generated" when the
\* backend returned without text, and success=false with error str(e) when
\* the generator could not be built or the backend call raised e
C13_AnalyzeContract ==
    \A c \in CallIds :
        /\ (calls[c].tool = "ImagenAPIClient.analyze" /\ Invoked(c))
             => RequestOf(c).prompt = IF Truthy(calls[c].args.prompt)
                                      THEN calls[c].args.prompt
                                      ELSE DEFAULT_ANALYSIS_PROMPT
        /\ ReturnedFrom(c, {"ImagenAPIClient.analyze"})
             => /\ calls[c].result.success <=> calls[c].backend = "text"
                /\ calls[c].result.success
                     => /\ calls[c].result.output = AnalysisText
                        /\ calls[c].result.data.analysis = AnalysisText
                /\ calls[c].backend = "no text"
                     => calls[c].result.error = "No analysis generated"
                /\ calls[c].backend \in {"raises", "raises bare"}
                     => calls[c].result.error = RaisedText(calls[c].backend)
                /\ calls[c].backend = ""
                     => calls[c].result.error = ConstructorErrorText

\* an analyze call given a prompt of its own has returned the backend's text
C13_Witness ==
    \E c \in CallIds :
        /\ ReturnedFrom(c, {"ImagenAPIClient.analyze"})
        /\ calls[c].args.prompt = "which colours?"
        /\ calls[c].result.success
        /\ RequestOf(c).prompt = "which colours?"

\* the operations of the two adapters
ClientOperations ==
    {"ImagenAPIClient.generate", "ImagenAPIClient.edit", "ImagenAPIClient.analyze",
     "ImagenAPIClient.list_models"}
CliOperations ==
    {"ImagenCLI.generate", "ImagenCLI.edit", "ImagenCLI.analyze", "ImagenCLI.list_models"}

\* C14: every result record an adapter operation returns (ImagenAPIClient
\* generate, edit, analyze, list_models; ImagenCLI._run_command under each of
\* its four commands) has an error that is not None if and only if its success
\* is false
C14_ErrorIffFailure ==
    \A c \in CallIds :
        ReturnedFrom(c, ClientOperations \cup CliOperations)
          => /\ calls[c].result.returned
             /\ calls[c].result.error # None <=> ~calls[c].result.success

\* a command that exited with a non-zero code and an empty stderr has returned
\* a failure whose error is the empty string, not None
C14_Witness ==
    \E c \in CallIds :
        /\ ReturnedFrom(c, CliOperations)
        /\ calls[c].result.return_code = 1
        /\ calls[c].result.error = ""
        /\ ~calls[c].result.success

\* the handler of call c returns in this step
Returning(c) == calls[c].pc # "done" /\ calls'[c].pc = "done"

\* C15: in every generate_image and edit_image response, image_path and
\* image_size_bytes are present only if the adapter result is a success and the
\* output file exists on disk when the response is formatted; the two keys are
\* present together or absent together, and a failure response carries neither
C15_ImageKeysOnlyForFileOnDisk ==
    [][\A c \in CallIds :
         Returning(c) /\ calls'[c].tool \in {"generate_image", "edit_image"}
           => LET call == calls'[c]
                  response == call.response
              IN  /\ response.image_path # None
                       => /\ call.result.returned
                          /\ call.result.success
                          /\ KindIn(fs', PurePath(call.output_path)) # "absent"
                  /\ response.image_path # None <=> response.image_size_bytes # None
                  /\ ~response.success => response.image_path = None]_vars

\* a call succeeded, its file is on disk and its response carries both keys
C15_Witness ==
    \E c \in CallIds :
        /\ ReturnedFrom(c, {"generate_image", "edit_image"})
        /\ calls[c].result.success
        /\ KindIn(fs, PurePath(calls[c].output_path)) = "file"
        /\ calls[c].response.image_path # None
        /\ calls[c].response.image_size_bytes # None

ImageTools == {"generate_image", "edit_image", "analyze_image"}

\* C16: for generate_image, edit_image and analyze_image, when the adapter
\* returns success=false with a non-empty error string, the tool response is
\* success=false and message alone, the message being the adapter's error
\* string unchanged
C16_AdapterErrorVerbatim ==
    \A c \in CallIds :
        /\ ReturnedFrom(c, ImageTools)
        /\ calls[c].result.returned
        /\ ~calls[c].result.success
        /\ Truthy(calls[c].result.error)
        => calls[c].response = Response(FALSE, calls[c].result.error)

\* an analyze_image call whose backend raised has been answered with the
\* text of the exception
C16_Witness ==
    \E c \in CallIds :
        /\ ReturnedFrom(c, {"analyze_image"})
        /\ calls[c].backend = "raises"
        /\ calls[c].result.error = BackendErrorText
        /\ calls[c].response.message = BackendErrorText
        /\ ~calls[c].response.success

Tools == ImageTools \cup {"list_available_models"}

\* the text the handler of a tool puts before str(e)
ErrorPrefix(tool) ==
    IF tool = "generate_image" THEN "Error generating image: "
    ELSE IF tool = "edit_image" THEN "Error editing image: "
    ELSE IF tool = "analyze_image" THEN "Error analyzing image: "
    ELSE "Error listing models: "

\* the handler of c caught an exception that its input model did not raise
CaughtUnexpected(c) == calls[c].exc # "" /\ ~calls[c].rejected

\* C17: every call of generate_image, edit_image, analyze_image and
\* list_available_models returns a response with a boolean success, and an
\* exception raised during handling that is not an input-validation error
\* yields success=false with the message "Error generating image: " /
\* "Error editing image: " / "Error analyzing image: " / "Error listing models: "
\* followed by str(e)
C17_UnexpectedErrorsAreGeneric ==
    \A c \in CallIds :
        ReturnedFrom(c, Tools)
          => /\ calls[c].response.returned
             /\ calls[c].response.success \in BOOLEAN
             /\ CaughtUnexpected(c)
                  => calls[c].response
                       = Response(FALSE, ErrorPrefix(calls[c].tool) \o ExcText(calls[c].exc))

\* message.startswith(prefix)
StartsWith(message, prefix) ==
    Len(message) >= Len(prefix) /\ SubSeq(message, 1, Len(prefix)) = prefix

\* C18: a response of generate_image, edit_image or analyze_image has a
\* message starting with "Invalid input:" if and only if the validator
\* rejected the arguments of that call; a backend failure or an unexpected
\* error, one raised while the configuration is loaded inside the handler
\* included, never has that prefix
C18_InvalidInputIffRejected ==
    \A c \in CallIds :
        ReturnedFrom(c, ImageTools)
          => (StartsWith(calls[c].response.message, "Invalid input:") <=> calls[c].rejected)

\* the result of c is the one _run_command gives for a timeout
TimeoutReported(c) ==
    /\ calls[c].result.returned
    /\ ~calls[c].result.success
    /\ calls[c].result.return_code = -1
    /\ calls[c].result.error = "Command timed out after " \o ToString(CliTimeout) \o "s"

\* C19: for every command run through ImagenCLI._run_command (generate, edit,
\* analyze, list_models), a subprocess that exceeds the timeout gives a result
\* with success=false, return_code=-1 and an error naming the timeout, and
\* every command that was started eventually returns a CLIResult, also when
\* the subprocess never exits
C19_TimeoutReturnsFailure ==
    /\ [](\A c \in CallIds :
            ReturnedFrom(c, CliOperations) /\ calls[c].backend = "timeout"
              => TimeoutReported(c))
    /\ \A c \in CallIds :
         (calls[c].pc = "running" /\ calls[c].tool \in CliOperations)
           ~> (ReturnedFrom(c, CliOperations) /\ calls[c].result.returned)

\* a command has timed out and its call has returned the timeout result
C19_Witness ==
    \E c \in CallIds :
        /\ ReturnedFrom(c, CliOperations)
        /\ calls[c].backend = "timeout"
        /\ TimeoutReported(c)

\* C20: ImagenCLI.generate and ImagenCLI.edit apply the success policy of
\* the in-process adapter: when the subprocess exits with return code 0 and
\* has produced no image, the result is success=false with the error
\* "No images generated"
C20_CliNoImagesIsFailure ==
    \A c \in CallIds :
        /\ ReturnedFrom(c, {"ImagenCLI.generate", "ImagenCLI.edit"})
        /\ calls[c].result.return_code = 0
        /\ calls[c].backend = "no images"
        => /\ ~calls[c].result.success
           /\ calls[c].result.error = "No images generated"

\* C21: the analyze tool accepts an optional prompt: a supplied prompt is
\* validated by the prompt rule (trimmed, non-empty, at most 2000 characters)
\* and the backend analysis is invoked with that prompt; without a prompt the
\* default analysis prompt is used
C21_AnalyzePromptReachesBackend ==
    \A c \in CallIds :
        calls[c].tool = "analyze_image" /\ calls[c].pc \in {"awaiting", "done"}
          => LET given == calls[c].args.prompt
                 checked == AnalyzeImageInput_validate_prompt(given)
             IN  /\ ~checked.ok => calls[c].rejected
                 /\ Invoked(c)
                      => RequestOf(c).prompt
                           = IF given = None THEN DEFAULT_ANALYSIS_PROMPT ELSE checked.value

\* C22: ImagenAPIClient.list_models always returns success=true with a
\* non-empty list of model records, each with a name, and does not invoke the
\* backend generator; so list_available_models returns success=true with a
\* non-empty models list on every call in which the client can be obtained
C22_ListModelsAlwaysSucceeds ==
    [][\A c \in CallIds :
         CallMade(c) /\ calls'[c].tool = "list_available_models"
           => LET call == calls'[c]
              IN  /\ call.pc = "done"
                  /\ backendLog' = backendLog
                  /\ client'.generator = client.generator
                  /\ call.exc = ""
                       => /\ call.result.returned
                          /\ call.result.success
                          /\ call.result.data.present
                          /\ Len(call.result.data.models) > 0
                          /\ \A i \in 1..Len(call.result.data.models) :
                                 Truthy(call.result.data.models[i])
                          /\ call.response.success
                          /\ ~call.response.models.is_none
                          /\ call.response.models.items = call.result.data.models]_vars

\* list_available_models has returned the three models
C22_Witness ==
    \E c \in CallIds :
        /\ ReturnedFrom(c, {"list_available_models"})
        /\ calls[c].exc = ""
        /\ calls[c].response.success
        /\ Len(calls[c].response.models.items) = 3

RaisedInAdapter(c) ==
    IF calls[c].backend = "raises" THEN BackendErrorText
    ELSE IF calls[c].backend = "raises bare" THEN ""
    ELSE ConstructorErrorText

\* C24: ImagenAPIClient.generate, edit and analyze never raise: an exception
\* thrown while the generator is obtained or during the backend call becomes
\* a returned result with success=false, empty output and error = str(e)
C24_AdapterNeverRaises ==
    \A c \in CallIds :
        ReturnedFrom(c, ClientOperations \ {"ImagenAPIClient.list_models"})
          => /\ calls[c].result.returned
             /\ calls[c].backend \in {"", "raises", "raises bare"}
                  => /\ ~calls[c].result.success
                     /\ calls[c].result.output = ""
                     /\ calls[c].result.error = RaisedInAdapter(c)
                     /\ calls[c].result.image_paths = NoList
                     /\ calls[c].result.data = NoData

\* an analyze call whose generator could not be constructed, and so made no
\* backend call, has returned the text of that exception
C24_Witness ==
    \E c \in CallIds :
        /\ ReturnedFrom(c, {"ImagenAPIClient.analyze"})
        /\ calls[c].backend = ""
        /\ calls[c].result.returned
        /\ calls[c].result.error = ConstructorErrorText

\* C25: a per-call model override is transient: in any sequence of generate
\* and edit calls on one client, the model_name the shared generator holds
\* when the backend request of a call is issued is the model argument of that
\* call if one was given and the default model of the client otherwise, and
\* the model reported in the data of the result is the model the generator
\* held for the request
C25_ModelOverrideTransient ==
    \A c \in CallIds :
        calls[c].tool \in {"ImagenAPIClient.generate", "ImagenAPIClient.edit"} /\ Invoked(c)
          => /\ RequestOf(c).model_name
                  = IF Truthy(calls[c].args.model) THEN calls[c].args.model
                    ELSE client.model_name
             /\ calls[c].pc = "done" /\ calls[c].result.success
                  => calls[c].result.data.model = RequestOf(c).model_name

(***************************************************************************)
(* Two tool calls in flight on one server: the event loop runs a handler   *)
(* to its await and is then free to run the handler of another request     *)
(***************************************************************************)
ConcurrentCallIds == {"c1", "c2"}

\* a server started with a valid configuration file, the directory of the
\* output not made yet
ConcurrentInit ==
    /\ vcall = NoCall
    /\ vret = Ok(None)
    /\ fs = ServerFs
    /\ configFile = File(Document(Mapping(ImagenGiven, {"default_model", "api_key"}),
                                  Mapping(StorageGiven, {"output_dir"}), Omitted))
    /\ environ = GoogleKeySet
    /\ loaded = NotLoaded
    /\ config = NoConfig
    /\ client = NoClient
    /\ now = 0
    /\ calls = [c \in ConcurrentCallIds |-> IdleCall]
    /\ backendLog = <<>>

\* each of the two requests is made once
ConcurrentNext ==
    \/ \E c \in ConcurrentCallIds : GenerateImage(c)
    \/ \E c \in ConcurrentCallIds : ImageBackendReturns(c)

SpecConcurrent == ConcurrentInit /\ [][ConcurrentNext]_vars

\* call c is a generate_image call whose backend request is running
InFlight(c) == calls[c].tool = "generate_image" /\ calls[c].pc = "awaiting"

\* the place in the log of the request of a call in flight
Issued(c) == CHOOSE i \in 1..Len(backendLog) :
                /\ backendLog[i].call = c
                /\ \A j \in (i + 1)..Len(backendLog) : backendLog[j].call # c

\* C26: the model override is shared adapter state with no lock: when two
\* generate_image calls that request different models are in flight at the
\* same time on the shared client, the request of the call that was issued
\* first runs while the model_name of the shared generator holds the model
\* requested by the other call
C26_OverrideSharedBetweenCalls ==
    \A c, d \in ConcurrentCallIds :
        /\ InFlight(c) /\ InFlight(d)
        /\ Truthy(calls[c].inputs.model) /\ Truthy(calls[d].inputs.model)
        /\ calls[c].inputs.model # calls[d].inputs.model
        /\ Issued(c) < Issued(d)
        => /\ client.generator.model_name = calls[d].inputs.model
           /\ client.generator.model_name # calls[c].inputs.model

\* two generate_image calls asking for different models are in flight, and
\* the generator holds the model of the second while the first is running
C26_Witness ==
    \E c, d \in ConcurrentCallIds :
        /\ InFlight(c) /\ InFlight(d)
        /\ calls[c].inputs.model = "gemini-3-pro-image-preview"
        /\ calls[d].inputs.model = "gemini-3.1-flash-image-preview"
        /\ Issued(c) < Issued(d)
        /\ client.generator.model_name = "gemini-3.1-flash-image-preview"

(***************************************************************************)
(* The files of the server's directory are not the server's alone: an      *)
(* input image can be removed while a request that names it is being       *)
(* served.  Two requests, each made once                                   *)
(***************************************************************************)
InputImage == "/w/i.png"

\* another process removes the input image
RemoveInput ==
    /\ fs[InputImage] = "file"
    /\ fs' = [fs EXCEPT ![InputImage] = "absent"]
    /\ UNCHANGED <<vcall, vret, configFile, environ, loaded, config, client, now, calls,
                   backendLog>>

\* the image the validated model of call c names is not on disk
InputGone(c) == KindIn(fs, PurePath(calls[c].inputs.image_path)) = "absent"

\* generator.generate(...) completes: it raises when it cannot read the input
\* image
RaceBackendReturns(c) ==
    /\ calls[c].pc = "awaiting"
    /\ IF calls[c].tool = "generate_image" THEN ImageBackendReturns(c)
       ELSE IF calls[c].tool = "edit_image"
       THEN \E outcome \in IF InputGone(c) THEN {"raises"} ELSE GenerateOutcomes :
              ImageBackendGives(c, outcome)
       ELSE \E outcome \in IF InputGone(c) THEN {"raises"} ELSE AnalyzeOutcomes :
              AnalysisBackendGives(c, outcome)

RaceNext ==
    \/ \E c \in ConcurrentCallIds : GenerateImage(c)
    \/ \E c \in ConcurrentCallIds : EditImage(c)
    \/ \E c \in ConcurrentCallIds : AnalyzeImage(c)
    \/ \E c \in ConcurrentCallIds : RaceBackendReturns(c)
    \/ RemoveInput

SpecRace == ConcurrentInit /\ [][RaceNext]_vars

\* C28: if the input image of an edit_image or analyze_image call passes
\* validation and is removed before the backend reads it, the call still
\* returns a response: success=false with the error of the backend as its
\* message, not an "Invalid input:" error of the validator
C28_RemovedInputIsBackendError ==
    [][\A c \in ConcurrentCallIds :
         /\ calls[c].pc = "awaiting"
         /\ calls[c].tool \in {"edit_image", "analyze_image"}
         /\ InputGone(c)
         /\ calls'[c] # calls[c]
         => /\ calls'[c].pc = "done"
            /\ ~calls'[c].rejected
            /\ calls'[c].result.error = BackendErrorText
            /\ calls'[c].response = Response(FALSE, BackendErrorText)
            /\ ~StartsWith(calls'[c].response.message, "Invalid input:")]_vars

\* an analyze_image call was accepted, its image was removed, the backend
\* failed to read it and the call has returned that failure
C28_Witness ==
    \E c \in ConcurrentCallIds :
        /\ ReturnedFrom(c, {"analyze_image"})
        /\ calls[c].inputs.ok
        /\ InputGone(c)
        /\ calls[c].backend = "raises"
        /\ calls[c].response = Response(FALSE, BackendErrorText)

\* the two requests have been validated, for the same tool with the same
\* argument values
SameRequest(c, d) ==
    /\ c # d
    /\ calls[c].pc # "idle" /\ calls[d].pc # "idle"
    /\ calls[c].tool \in ImageTools
    /\ calls[c].tool = calls[d].tool
    /\ calls[c].args = calls[d].args

\* the same decision and, on acceptance, the same normalized values
SameValidation(c, d) ==
    /\ calls[c].inputs.ok = calls[d].inputs.ok
    /\ calls[c].inputs.ok => calls[c].inputs = calls[d].inputs

\* C27, as stated: validation is deterministic for each of the three request
\* types: validating the same argument values at any two points of an
\* execution yields the same accept/reject decision and, on acceptance, the
\* same normalized values, the image-path arguments of edit and analyze
\* included
C27_ValidationDeterministic ==
    \A c, d \in ConcurrentCallIds : SameRequest(c, d) => SameValidation(c, d)

\* C27, amended: validating the same argument values twice yields the same
\* decision and the same normalized values for generate requests always, and
\* for edit and analyze requests unless the file the image path names has
\* changed in between: two validations differ only when one accepted an image
\* that is no longer on disk
C27_DeterministicWhileFilesStay ==
    \A c, d \in ConcurrentCallIds :
        SameRequest(c, d) /\ ~SameValidation(c, d)
          => /\ calls[c].tool \in {"edit_image", "analyze_image"}
             /\ \E a \in {c, d} : calls[a].inputs.ok /\ InputGone(a)

\* the same analyze_image request was accepted once and rejected once, its
\* image having been removed in between
C27_Witness ==
    \E c, d \in ConcurrentCallIds :
        /\ SameRequest(c, d)
        /\ calls[c].tool = "analyze_image"
        /\ calls[c].inputs.ok /\ ~calls[d].inputs.ok
        /\ InputGone(c)

(***************************************************************************)
(* config/config.yaml is rewritten while the server runs, and              *)
(* reload_config is called                                                 *)
(***************************************************************************)
\* a file naming a model and an output directory, a file with no imagen
\* section, a file with an invalid temperature
ReloadFiles ==
    { File(Document(Mapping(ImagenGiven, {"default_model", "api_key"}),
                    Mapping(StorageGiven, {"output_dir"}), Omitted)),
      File(Document(Omitted, Mapping(StorageGiven, {"output_dir"}), Omitted)),
      File(Document(YMap([default_temperature |-> 11]), Omitted, Omitted)) }

ReloadInit ==
    /\ vcall = NoCall
    /\ vret = Ok(None)
    /\ fs = ServerFs
    /\ configFile \in ReloadFiles
    /\ environ = GoogleKeySet
    /\ loaded = NotLoaded
    /\ ServerIdle

\* somebody edits the configuration file
RewriteConfigFile ==
    /\ \E file \in ReloadFiles : file # configFile /\ configFile' = file
    /\ UNCHANGED <<vcall, vret, fs, environ, loaded, config, client, now, calls, backendLog>>

ReloadNext ==
    \/ CallGetConfig
    \/ ReloadConfig
    \/ RewriteConfigFile
    \/ \E c \in CallIds : ListAvailableModels(c)
    \/ \E c \in CallIds : AnalyzeImage(c)
    \/ \E c \in CallIds : AnalysisBackendReturns(c)
    \/ \E c \in CallIds : NextCall(c)

SpecReload == ReloadInit /\ [][ReloadNext]_vars

\* C29: the backend client is created at most once per process and then
\* reused: once get_api_client has created it, no tool call and no
\* reload_config replaces it, so its api_key and default model_name stay those
\* of the configuration in effect when it was created, and its generator is
\* constructed at most once
C29_ClientCreatedOnce ==
    [][/\ client.created
            => /\ client'.created
               /\ client'.model_name = client.model_name
               /\ client'.api_key = client.api_key
       /\ client.generator.created => client'.generator = client.generator
       /\ (~client.created /\ client'.created)
            => /\ \E c \in CallIds : CallMade(c)
               /\ config' # NoConfig
               /\ client'.model_name = config'.imagen.default_model
               /\ client'.api_key = config'.imagen.api_key
       /\ (ReloadConfig \/ CallGetConfig \/ RewriteConfigFile) => client' = client]_vars

\* the configuration has been reloaded with another default model; the client
\* made before the reload, its generator constructed, has served a request
\* after it and still has the model of the first configuration
C29_Witness ==
    /\ Serial(config) = 2
    /\ client.created
    /\ client.generator.created
    /\ client.model_name = "custom-model"
    /\ config.imagen.default_model = "gemini-2.5-flash-image"
    /\ Len(backendLog) = 2
    /\ backendLog[2].model_name = "custom-model"

\* C30: reload_config swaps the configuration wholesale: _config is assigned
\* only after Config.load has returned a fully built configuration, so it is
\* at every moment None, the old object or a new object built whole from the
\* file and the environment of the reload, and when Config.load raises during
\* reload_config the configuration loaded before stays in place unchanged
C30_ReloadSwapsWholesale ==
    [][ReloadConfig
         => LET r == ConfigLoad(configFile, environ, fs)
            IN  /\ loaded'.raised = r.raised
                /\ r.raised => config' = config
                /\ ~r.raised => config' = Instance(r.config, Serial(config) + 1)]_vars

\* a reload_config call has raised on a file with an invalid temperature and
\* the configuration loaded before it, with the model of the earlier file, is
\* still in place
C30_Witness ==
    /\ loaded.raised
    /\ loaded.exc = "ValidationError"
    /\ config # NoConfig
    /\ Serial(config) = 1
    /\ config.imagen.default_model = "custom-model"
    /\ configFile = File(Document(YMap([default_temperature |-> 11]), Omitted, Omitted))

====
